---- MODULE Spec2Model ----
(***************************************************************************)
(* Model of the `workspace` CLI (jubalm/workspace): branch resolution,     *)
(* worktree path naming and the create / remove / list / prune lifecycle.  *)
(*                                                                         *)
(* Strings are sequences of one-character strings, so that startsWith,     *)
(* String.replace and the sanitising regular expression are computed the   *)
(* way the code computes them.  One CLI invocation is one process: it runs *)
(* from "idle" to "exited"; the repository and the filesystem persist      *)
(* between invocations.  Every external command is one step; its outcome   *)
(* is the outcome git gives in the modelled repository state, or an        *)
(* environment failure.                                                    *)
(***************************************************************************)
EXTENDS Integers, Sequences, FiniteSets, TLC

VARIABLES
    pc,            \* position of the running process
    cmd,           \* the invocation: command, branch token / name, options
    runs,          \* number of invocations started so far
    log,           \* external commands and outputs of this invocation, in order
    exitCode,      \* exit status once pc = "exited"; Running before
    quietMode,     \* logger.ts: quietMode
    dirName,       \* createWorktree: dirName
    worktreePath,  \* createWorktree / removeWorktree: worktreePath
    resolution,    \* createWorktree: resolution (BranchResolution)
    branchName,    \* removeWorktree: branchName; createFromRemoteBranch: trackingBranchName
    branchRef,     \* createNewBranch: branchRef
    heads,         \* refs/heads: local branch name -> commit
    remotes,       \* refs/remotes/origin: branch name -> commit
    tags,          \* refs/tags: tag name -> commit
    server,        \* branches of the origin repository itself: name -> commit
    upstream,      \* local branch name -> configured upstream ref
    worktrees,     \* registered worktree path -> checked-out branch, or HEADMARK
    fsDirs,        \* directories that exist on disk
    gitignore      \* lines of projectRoot/.gitignore, or NoFile

procVars == <<pc, cmd, runs, log, exitCode, quietMode>>
localVars == <<dirName, worktreePath, resolution, branchName, branchRef>>
refVars == <<heads, remotes, tags, server, upstream>>
diskVars == <<worktrees, fsDirs, gitignore>>
vars == <<procVars, localVars, refVars, diskVars>>

----------------------------------------------------------------------------
(* Bounds of the model *)

\* longest tail of a branch token after its prefixes (pure-function checks)
MaxTail == 2
\* most prefix atoms (origin/, remotes/) in front of the tail
MaxPrefix == 2
\* most CLI invocations in one behaviour
MaxRuns == 2

----------------------------------------------------------------------------
(* Strings as sequences of characters *)

Lower ==
    {"a","b","c","d","e","f","g","h","i","j","k","l","m",
     "n","o","p","q","r","s","t","u","v","w","x","y","z"}

Upper ==
    {"A","B","C","D","E","F","G","H","I","J","K","L","M",
     "N","O","P","Q","R","S","T","U","V","W","X","Y","Z"}

Digit == {"0","1","2","3","4","5","6","7","8","9"}

\* the class [a-zA-Z0-9_-] of sanitizeBranchName
SafeChars == Lower \cup Upper \cup Digit \cup {"_", "-"}

EMPTY == << >>

StartsWith(s, p) ==
    /\ Len(p) <= Len(s)
    /\ SubSeq(s, 1, Len(p)) = p

\* first index at which p occurs in s, 0 when it does not
IndexOf(s, p) ==
    LET hits == {i \in 1..(Len(s) - Len(p) + 1) : SubSeq(s, i, i + Len(p) - 1) = p}
    IN  IF hits = {} THEN 0 ELSE CHOOSE i \in hits : \A j \in hits : i <= j

\* String.prototype.replace with a string pattern: the first occurrence only
ReplaceFirst(s, p, r) ==
    LET i == IndexOf(s, p)
    IN  IF i = 0 THEN s
        ELSE SubSeq(s, 1, i - 1) \o r \o SubSeq(s, i + Len(p), Len(s))

\* String.prototype.replace(/^p/, ''): an anchored pattern
StripLeading(s, p) ==
    IF StartsWith(s, p) THEN SubSeq(s, Len(p) + 1, Len(s)) ELSE s

ORIGIN == <<"o","r","i","g","i","n","/">>
REMOTES == <<"r","e","m","o","t","e","s","/">>
REMOTES_ORIGIN == REMOTES \o ORIGIN
CLAUDE == <<"c","l","a","u","d","e","/">>
HEADMARK == <<"H","E","A","D">>
MAIN == <<"m","a","i","n">>

WORKTREE_DIR == <<".","w","o","r","k","t","r","e","e">>
DEFAULT_BASE_BRANCH == MAIN

----------------------------------------------------------------------------
(* Worktree path naming (git.ts) *)

sanitizeBranchName(branch) ==
    [i \in 1..Len(branch) |-> IF branch[i] \in SafeChars THEN branch[i] ELSE "-"]

getWorktreeNameStripAfter(branch) ==
    StripLeading(sanitizeBranchName(branch), <<"o","r","i","g","i","n","-">>)

getWorktreeNameKeepingPrefix(branch) == sanitizeBranchName(branch)

getWorktreeName(branch) ==
    sanitizeBranchName(StripLeading(branch, ORIGIN))

----------------------------------------------------------------------------
(* Branch classification of resolveBranch (git.ts) *)

ClassifyKeepingRemotes(branch) ==
    IF StartsWith(branch, ORIGIN)
    THEN [remoteCandidate |-> branch,
          cleanBranchName |-> ReplaceFirst(branch, ORIGIN, EMPTY)]
    ELSE IF StartsWith(branch, REMOTES_ORIGIN)
    THEN [remoteCandidate |-> branch,
          cleanBranchName |-> ReplaceFirst(branch, REMOTES_ORIGIN, EMPTY)]
    ELSE [remoteCandidate |-> ORIGIN \o branch,
          cleanBranchName |-> branch]

Classify(branch) ==
    IF StartsWith(branch, ORIGIN)
    THEN [remoteCandidate |-> branch,
          cleanBranchName |-> ReplaceFirst(branch, ORIGIN, EMPTY)]
    ELSE IF StartsWith(branch, REMOTES_ORIGIN)
    THEN [remoteCandidate |-> ReplaceFirst(branch, REMOTES, EMPTY),
          cleanBranchName |-> ReplaceFirst(branch, REMOTES_ORIGIN, EMPTY)]
    ELSE [remoteCandidate |-> ORIGIN \o branch,
          cleanBranchName |-> branch]

----------------------------------------------------------------------------
(* Paths: node:path join for absolute POSIX paths *)

SLASH == <<"/">>
DOT == <<".">>
DOTDOT == <<".", ".">>
PROJECT_ROOT == <<"/", "r">>

RECURSIVE Segments(_)
Segments(s) ==
    LET i == IndexOf(s, SLASH)
    IN  IF i = 0 THEN <<s>>
        ELSE <<SubSeq(s, 1, i - 1)>> \o Segments(SubSeq(s, i + 1, Len(s)))

RECURSIVE ResolveDots(_, _)
ResolveDots(segs, acc) ==
    IF segs = << >> THEN acc
    ELSE LET h == Head(segs)
         IN  ResolveDots(Tail(segs),
                 IF h = EMPTY \/ h = DOT THEN acc
                 ELSE IF h = DOTDOT
                      THEN (IF acc = << >> THEN acc ELSE SubSeq(acc, 1, Len(acc) - 1))
                      ELSE Append(acc, h))

RECURSIVE Render(_)
Render(segs) ==
    IF segs = << >> THEN EMPTY ELSE SLASH \o Head(segs) \o Render(Tail(segs))

EndsWithSlash(p) == Len(p) > 0 /\ p[Len(p)] = "/"

\* path.normalize of an absolute path: ".", ".." and empty segments are resolved,
\* a trailing separator is kept
Normalize(p) ==
    LET segs == ResolveDots(Segments(p), << >>)
    IN  IF segs = << >> THEN SLASH
        ELSE Render(segs) \o (IF EndsWithSlash(p) THEN SLASH ELSE EMPTY)

RECURSIVE Glue(_)
Glue(parts) ==
    IF parts = << >> THEN EMPTY
    ELSE IF Head(parts) = EMPTY THEN Glue(Tail(parts))
    ELSE LET rest == Glue(Tail(parts))
         IN  IF rest = EMPTY THEN Head(parts) ELSE Head(parts) \o SLASH \o rest

\* path.join(...parts): the non-empty parts glued with "/", then normalised
PathJoin(parts) == Normalize(Glue(parts))

StripTrailingSlash(p) ==
    IF Len(p) > 1 /\ EndsWithSlash(p) THEN SubSeq(p, 1, Len(p) - 1) ELSE p

getWorktreePath(worktreeDir, branch) ==
    PathJoin(<<worktreeDir, getWorktreeName(branch)>>)

RootDirPath == PathJoin(<<PROJECT_ROOT, WORKTREE_DIR>>)

\* fs.existsSync
ExistsSync(p) == StripTrailingSlash(p) \in fsDirs

InsideProject(p) ==
    \/ StripTrailingSlash(p) = PROJECT_ROOT
    \/ StartsWith(p, PROJECT_ROOT \o SLASH)

----------------------------------------------------------------------------
(* The repository as git sees it *)

C_LOCAL == <<"a", "1">>
C_REMOTE == <<"b", "2">>
C_TAG == <<"c", "3">>
C_DETACHED == <<"d", "4">>
Commits == {C_LOCAL, C_REMOTE, C_TAG, C_DETACHED}

With(f, k, v) == [x \in (DOMAIN f) \cup {k} |-> IF x = k THEN v ELSE f[x]]
Without(f, k) == [x \in (DOMAIN f) \ {k} |-> f[x]]
NoRefs == [x \in {} |-> EMPTY]

\* commit of HEAD in the main working tree
HeadCommit ==
    IF worktrees[PROJECT_ROOT] \in DOMAIN heads
    THEN heads[worktrees[PROJECT_ROOT]]
    ELSE C_DETACHED

\* git rev-parse --verify <ref>: the commit id, or nothing when <ref> names no
\* object.  Lookup order of gitrevisions: $GIT_DIR/<ref>, refs/<ref>,
\* refs/tags/<ref>, refs/heads/<ref>, refs/remotes/<ref>.
RevParse(ref) ==
    IF ref = HEADMARK THEN HeadCommit
    ELSE IF ref \in Commits THEN ref
    ELSE IF StartsWith(ref, REMOTES_ORIGIN)
            /\ StripLeading(ref, REMOTES_ORIGIN) \in DOMAIN remotes
         THEN remotes[StripLeading(ref, REMOTES_ORIGIN)]
    ELSE IF ref \in DOMAIN tags THEN tags[ref]
    ELSE IF ref \in DOMAIN heads THEN heads[ref]
    ELSE IF StartsWith(ref, ORIGIN) /\ StripLeading(ref, ORIGIN) \in DOMAIN remotes
         THEN remotes[StripLeading(ref, ORIGIN)]
    ELSE EMPTY

CheckedOut(b) == \E p \in DOMAIN worktrees : worktrees[p] = b

\* a name git accepts for a new branch
ValidBranchName(n) ==
    /\ n # EMPTY
    /\ n # HEADMARK
    /\ n[1] \notin {"-", "/", "."}
    /\ n[Len(n)] \notin {"/", "."}
    /\ IndexOf(n, DOTDOT) = 0
    /\ IndexOf(n, <<"/", "/">>) = 0
    /\ IndexOf(n, <<" ">>) = 0

\* cd "<path>" && git rev-parse --abbrev-ref HEAD
AbbrevRefHead(path) ==
    LET p == StripTrailingSlash(path)
    IN  IF p \notin fsDirs THEN EMPTY
        ELSE IF p \in DOMAIN worktrees THEN worktrees[p]
        ELSE IF InsideProject(p) THEN worktrees[PROJECT_ROOT]
        ELSE EMPTY

\* cd "<path>" && git rev-parse --abbrev-ref --symbolic-full-name @{u}
UpstreamOf(path) ==
    LET b == AbbrevRefHead(path)
    IN  IF b \in DOMAIN upstream THEN upstream[b] ELSE EMPTY

----------------------------------------------------------------------------
(* Outcomes of external commands (exec.ts) *)

\* one entry of the invocation's log
NoFailure == [known |-> TRUE, status |-> 0]

Ev(op, args, out, ok) ==
    [op |-> op, args |-> args, out |-> out, ok |-> ok, fail |-> NoFailure]

\* a command that exec / execInteractive saw fail with f
Failed(op, args, f) ==
    [op |-> op, args |-> args, out |-> EMPTY, ok |-> FALSE, fail |-> f]

\* a child process that ended badly: with an exit status, or (killed, not
\* spawned) with none
EnvFailures ==
    {[known |-> TRUE, status |-> 128],
     [known |-> FALSE, status |-> 0]}

GitFatal == [known |-> TRUE, status |-> 128]

ExitStatusAlwaysOne(f) == 1

\* execError.status ?? 1
ExitStatusOf(f) == IF f.known THEN f.status ELSE 1

\* execQuiet: the trimmed output, or '' when the command fails for any reason
ExecQuiet(real) == {real, EMPTY}

\* what can happen to a command git would carry out (gitOk) or refuse
Failures(gitOk) == IF gitOk THEN EnvFailures ELSE {GitFatal}

----------------------------------------------------------------------------
(* Setup trigger (autorun.ts) *)

NONE == <<"n","o","n","e">>
DEFAULT == <<"d","e","f","a","u","l","t">>
MAKE_SETUP == <<"m","a","k","e"," ","s","e","t","u","p">>
SCRIPT_SETUP == <<"s","c","r","i","p","t","/","s","e","t","u","p">>
CUSTOM_SCRIPT == <<"/","s">>

\* what the setup step finds on disk, and how a script that is run ends
SetupEnvs ==
    [candidate : BOOLEAN,      \* an executable candidate script is in the worktree
     makeTarget : BOOLEAN,     \* its Makefile has a setup: or bootstrap: target
     customExists : BOOLEAN,   \* the explicit script path exists
     customExec : BOOLEAN,     \* ... and is executable
     scriptOk : BOOLEAN]       \* the script, when run, exits 0

detectSetupScript(path, env) ==
    IF env.candidate THEN PathJoin(<<path, SCRIPT_SETUP>>)
    ELSE IF env.makeTarget THEN MAKE_SETUP
    ELSE EMPTY

runSetupMissingFails(path, setupMode, env) ==
    IF setupMode = NONE THEN [result |-> TRUE, executed |-> EMPTY, script |-> EMPTY]
    ELSE LET setupScript ==
                 IF setupMode = DEFAULT THEN detectSetupScript(path, env) ELSE setupMode
             exists ==
                 IF setupMode = DEFAULT THEN setupScript # MAKE_SETUP
                 ELSE env.customExists
             executable ==
                 IF setupMode = DEFAULT THEN TRUE ELSE env.customExec
         IN  IF setupScript = EMPTY
             THEN [result |-> TRUE, executed |-> EMPTY, script |-> setupScript]
             ELSE IF ~exists \/ ~executable
             THEN [result |-> FALSE, executed |-> EMPTY, script |-> setupScript]
             ELSE [result |-> env.scriptOk, executed |-> setupScript,
                   script |-> setupScript]

\* runSetup: [result, executed, script]: script is the setupScript it settled on,
\* executed the script that was run, each EMPTY when there is none
runSetup(path, setupMode, env) ==
    IF setupMode = NONE THEN [result |-> TRUE, executed |-> EMPTY, script |-> EMPTY]
    ELSE LET setupScript ==
                 IF setupMode = DEFAULT THEN detectSetupScript(path, env) ELSE setupMode
             exists ==
                 IF setupMode = DEFAULT THEN setupScript # MAKE_SETUP
                 ELSE env.customExists
             executable ==
                 IF setupMode = DEFAULT THEN TRUE ELSE env.customExec
             skipped == [result |-> TRUE, executed |-> EMPTY, script |-> setupScript]
         IN  IF setupScript = EMPTY THEN skipped
             ELSE IF ~exists THEN skipped
             ELSE IF ~executable THEN skipped
             ELSE [result |-> env.scriptOk, executed |-> setupScript,
                   script |-> setupScript]

SetupModePathFirst(options) ==
    IF options.setupScript # EMPTY THEN options.setupScript
    ELSE IF options.skipSetup THEN NONE
    ELSE DEFAULT

\* commands.ts: options.skipSetup ? 'none' : options.setupScript || 'default'
SetupModeOf(options) ==
    IF options.skipSetup THEN NONE
    ELSE IF options.setupScript # EMPTY THEN options.setupScript
    ELSE DEFAULT

----------------------------------------------------------------------------
(* .gitignore management (git.ts) *)

GITIGNORE_COMMENT == <<"#"," ","g","i","t"," ","w","o","r","k","t","r","e","e","s">>
NODE_MODULES == <<"n","o","d","e","_","m","o","d","u","l","e","s">>

\* text `^${worktreeDir}/?$` as a regular expression, tested on one line: a "."
\* of worktreeDir matches any character
LineMatches(line, worktreeDir) ==
    /\ Len(line) \in {Len(worktreeDir), Len(worktreeDir) + 1}
    /\ \A i \in 1..Len(worktreeDir) : worktreeDir[i] = "." \/ line[i] = worktreeDir[i]
    /\ Len(line) = Len(worktreeDir) + 1 => line[Len(line)] = "/"

ensureGitignoreAlwaysAppends(file, worktreeDir) ==
    LET pattern == worktreeDir \o SLASH
    IN  IF ~file.exists
        THEN [exists |-> TRUE, lines |-> <<pattern, EMPTY>>]
        ELSE [exists |-> TRUE,
              lines |-> file.lines \o <<GITIGNORE_COMMENT, pattern, EMPTY>>]

ensureGitignoreRewrites(file, worktreeDir) ==
    LET pattern == worktreeDir \o SLASH
    IN  IF ~file.exists
        THEN [exists |-> TRUE, lines |-> <<pattern, EMPTY>>]
        ELSE IF \E i \in 1..Len(file.lines) : LineMatches(file.lines[i], worktreeDir)
        THEN file
        ELSE [exists |-> TRUE, lines |-> <<GITIGNORE_COMMENT, pattern, EMPTY>>]

\* the file after ensureGitignore; lines are the text split at "\n"
ensureGitignore(file, worktreeDir) ==
    LET pattern == worktreeDir \o SLASH
    IN  IF ~file.exists
        THEN [exists |-> TRUE, lines |-> <<pattern, EMPTY>>]
        ELSE IF \E i \in 1..Len(file.lines) : LineMatches(file.lines[i], worktreeDir)
        THEN file
        ELSE [exists |-> TRUE,
              lines |-> file.lines \o <<GITIGNORE_COMMENT, pattern, EMPTY>>]

NoFile == [exists |-> FALSE, lines |-> << >>]

----------------------------------------------------------------------------
(* Initial repositories and the inputs of an invocation *)

X == <<"x">>
Y == <<"y">>
WtX == PathJoin(<<RootDirPath, X>>)

\* what may be on disk before the tool runs: a fresh repository, one the tool has
\* been used in, one whose .gitignore lacks the entry, a plain directory where a
\* worktree would go, and a registered worktree on a detached HEAD
IgnoredFile == [exists |-> TRUE, lines |-> <<WORKTREE_DIR \o SLASH, EMPTY>>]
OtherFile == [exists |-> TRUE, lines |-> <<NODE_MODULES, EMPTY>>]

PlainDisks ==
    {[dirs |-> {SLASH, PROJECT_ROOT}, file |-> NoFile, detached |-> FALSE],
     [dirs |-> {SLASH, PROJECT_ROOT, RootDirPath}, file |-> IgnoredFile, detached |-> FALSE],
     [dirs |-> {SLASH, PROJECT_ROOT, RootDirPath}, file |-> OtherFile, detached |-> FALSE]}

OccupiedDisks ==
    {[dirs |-> {SLASH, PROJECT_ROOT, RootDirPath, WtX}, file |-> IgnoredFile, detached |-> d] :
        d \in BOOLEAN}

\* the directory of a registered worktree was deleted by hand
StaleDisks ==
    {[dirs |-> {SLASH, PROJECT_ROOT, RootDirPath}, file |-> IgnoredFile, detached |-> TRUE]}

RefsOn(S, c) == [n \in S |-> c]

Refs(h, s, r, t, u) == [heads |-> h, server |-> s, remotes |-> r, tags |-> t, upstream |-> u]

\* the refs before the tool runs: x unknown; x on origin, not yet fetched; x
\* fetched; x local only; x local and remote, without and with an upstream; no
\* branch main; a tag x; a tag x beside a fetched origin/x
BareRefs == Refs(RefsOn({MAIN}, C_LOCAL), NoRefs, NoRefs, NoRefs, NoRefs)
BothRefs ==
    Refs(RefsOn({MAIN, X}, C_LOCAL), RefsOn({X}, C_REMOTE), RefsOn({X}, C_REMOTE),
         NoRefs, NoRefs)

RefScenarios ==
    {BareRefs,
     BothRefs,
     Refs(RefsOn({MAIN}, C_LOCAL), RefsOn({X}, C_REMOTE), NoRefs, NoRefs, NoRefs),
     Refs(RefsOn({MAIN}, C_LOCAL), RefsOn({X}, C_REMOTE), RefsOn({X}, C_REMOTE),
          NoRefs, NoRefs),
     Refs(RefsOn({MAIN, X}, C_LOCAL), NoRefs, NoRefs, NoRefs, NoRefs),
     Refs(RefsOn({MAIN, X}, C_LOCAL), RefsOn({X}, C_REMOTE), RefsOn({X}, C_REMOTE),
          NoRefs, RefsOn({X}, MAIN)),
     Refs(NoRefs, NoRefs, NoRefs, NoRefs, NoRefs),
     Refs(RefsOn({MAIN}, C_LOCAL), NoRefs, NoRefs, RefsOn({X}, C_TAG), NoRefs),
     Refs(RefsOn({MAIN}, C_LOCAL), RefsOn({X}, C_REMOTE), RefsOn({X}, C_REMOTE),
          RefsOn({X}, C_TAG), NoRefs)}

InitialRepositories ==
    (RefScenarios \X PlainDisks)
    \cup ({BareRefs, BothRefs} \X OccupiedDisks)
    \cup ({BareRefs} \X StaleDisks)

CliTokens == {EMPTY, X, Y, MAIN, ORIGIN \o X, REMOTES_ORIGIN \o X, ORIGIN}

CliNames == {X, DOTDOT, Y}

Options(skip, script, base) ==
    [skipSetup |-> skip, setupScript |-> script, baseBranch |-> base]

NoOptions == Options(FALSE, EMPTY, EMPTY)

CliOptions ==
    {NoOptions,
     Options(TRUE, EMPTY, EMPTY),
     Options(FALSE, CUSTOM_SCRIPT, EMPTY),
     Options(TRUE, CUSTOM_SCRIPT, EMPTY),
     Options(FALSE, EMPTY, X)}

\* every token without options; the setup options with the tokens x and
\* origin/x; an explicit base with x and y
CreateInvocations ==
    {[kind |-> "create", arg |-> t, options |-> NoOptions] : t \in CliTokens}
    \cup {[kind |-> "create", arg |-> t, options |-> o] :
              t \in {X, ORIGIN \o X}, o \in CliOptions}
    \cup {[kind |-> "create", arg |-> Y, options |-> Options(FALSE, EMPTY, X)]}

Invocations ==
    CreateInvocations
    \cup {[kind |-> "remove", arg |-> n, options |-> NoOptions] : n \in CliNames}
    \cup {[kind |-> k, arg |-> EMPTY, options |-> NoOptions] : k \in {"list", "prune"}}

NoResolution == [type |-> "none", foundBranch |-> EMPTY, cleanBranchName |-> EMPTY]

FreshProcess ==
    /\ log = << >>
    /\ exitCode = 0
    /\ quietMode = FALSE
    /\ dirName = EMPTY
    /\ worktreePath = EMPTY
    /\ resolution = NoResolution
    /\ branchName = EMPTY
    /\ branchRef = EMPTY

\* the variables of a process that has just been started
StartProcess ==
    /\ log' = << >>
    /\ exitCode' = 0
    /\ quietMode' = FALSE
    /\ dirName' = EMPTY
    /\ worktreePath' = EMPTY
    /\ resolution' = NoResolution
    /\ branchName' = EMPTY
    /\ branchRef' = EMPTY

Init ==
    /\ pc = "idle"
    /\ cmd = [kind |-> "list", arg |-> EMPTY, options |-> NoOptions]
    /\ runs = 0
    /\ FreshProcess
    /\ \E repo \in InitialRepositories :
        LET r == repo[1]
            d == repo[2]
        IN
        /\ heads = r.heads
        /\ remotes = r.remotes
        /\ server = r.server
        /\ tags = r.tags
        /\ upstream = r.upstream
        /\ fsDirs = d.dirs
        /\ gitignore = d.file
        /\ worktrees =
              LET main == RefsOn({PROJECT_ROOT},
                                 IF MAIN \in DOMAIN r.heads THEN MAIN ELSE HEADMARK)
              IN  IF d.detached THEN With(main, WtX, HEADMARK) ELSE main

----------------------------------------------------------------------------
(* Process control *)

Note(op) == Ev(op, << >>, EMPTY, TRUE)

\* process.exit(code)
Exit(code, newLog) ==
    /\ pc' = "exited"
    /\ exitCode' = code
    /\ log' = newLog

Goto(next, newLog) ==
    /\ pc' = next
    /\ log' = newLog
    /\ UNCHANGED exitCode

\* exec(): the catch branch, lines 12-19 of exec.ts
ExecAbort(op, args, f) ==
    Exit(ExitStatusOf(f),
         log \o <<Failed(op, args, f), Note("error: Command failed")>>)

\* execInteractive(): the catch branch, lines 38-41 of exec.ts
InteractiveAbort(op, f) ==
    Exit(ExitStatusOf(f), Append(log, Failed(op, << >>, f)))

\* a new process is started from the shell
Invoke ==
    /\ pc \in {"idle", "exited"}
    /\ runs < MaxRuns
    /\ runs' = runs + 1
    /\ \E c \in Invocations : cmd' = c
    /\ pc' = "cli"
    /\ StartProcess
    /\ UNCHANGED <<refVars, diskVars>>

CliActionNoCheck ==
    /\ pc = "cli"
    /\ \E out \in ExecQuiet(<<".", "g", "i", "t">>) :
        LET probe == Ev("rev-parse --git-dir", << >>, out, out # EMPTY)
        IN  IF cmd.kind = "create" /\ cmd.arg = EMPTY
            THEN Exit(0, log \o <<probe, Note("help")>>)
            ELSE Goto(CASE cmd.kind = "create" -> "prepareWorktreePaths"
                        [] cmd.kind = "remove" -> "removeWorktree"
                        [] cmd.kind = "list" -> "listWorktrees"
                        [] OTHER -> "pruneWorktrees",
                      Append(log, probe))
    /\ UNCHANGED <<cmd, runs, quietMode, localVars, refVars, diskVars>>

\* index.ts: the action callbacks: checkGitRepo(), then the command
CliAction ==
    /\ pc = "cli"
    /\ \E out \in ExecQuiet(<<".", "g", "i", "t">>) :
        LET probe == Ev("rev-parse --git-dir", << >>, out, out # EMPTY)
        IN  IF out = EMPTY
            THEN Exit(1, log \o <<probe, Note("error: Not a git repository")>>)
            ELSE IF cmd.kind = "create" /\ cmd.arg = EMPTY
            THEN Exit(0, log \o <<probe, Note("help")>>)
            ELSE Goto(CASE cmd.kind = "create" -> "prepareWorktreePaths"
                        [] cmd.kind = "remove" -> "removeWorktree"
                        [] cmd.kind = "list" -> "listWorktrees"
                        [] OTHER -> "pruneWorktrees",
                      Append(log, probe))
    /\ UNCHANGED <<cmd, runs, quietMode, localVars, refVars, diskVars>>

\* commands.ts prepareWorktreePaths
PrepareWorktreePaths ==
    /\ pc = "prepareWorktreePaths"
    /\ \/ /\ Goto("checkExisting",
                  Append(log, Ev("rev-parse --show-toplevel", << >>, PROJECT_ROOT, TRUE)))
          /\ dirName' = getWorktreeName(cmd.arg)
          /\ worktreePath' =
                 getWorktreePath(PathJoin(<<PROJECT_ROOT, WORKTREE_DIR>>), cmd.arg)
       \/ /\ \E f \in Failures(TRUE) : ExecAbort("rev-parse --show-toplevel", << >>, f)
          /\ UNCHANGED <<dirName, worktreePath>>
    /\ UNCHANGED <<cmd, runs, quietMode, resolution, branchName, branchRef,
                   refVars, diskVars>>

\* fs.existsSync(path), as the log records it
ExistsEv(path) == Ev("existsSync", <<path>>, EMPTY, ExistsSync(path))

CheckExistingNoEarlyReturn ==
    /\ pc = "checkExisting"
    /\ Goto("ensureGitignore", Append(log, ExistsEv(worktreePath)))
    /\ quietMode' = TRUE
    /\ UNCHANGED <<cmd, runs, localVars, refVars, diskVars>>

\* commands.ts createWorktree: the early return for an existing worktree
CheckExisting ==
    /\ pc = "checkExisting"
    /\ IF ExistsSync(worktreePath)
       THEN /\ Goto("handleExistingWorktree", Append(log, ExistsEv(worktreePath)))
            /\ UNCHANGED quietMode
       ELSE /\ Goto("ensureGitignore", Append(log, ExistsEv(worktreePath)))
            /\ quietMode' = TRUE
    /\ UNCHANGED <<cmd, runs, localVars, refVars, diskVars>>

SetupStepIgnoringFailure(next) ==
    \E env \in SetupEnvs :
        LET mode == SetupModeOf(cmd.options)
            r == runSetup(worktreePath, mode, env)
        IN  Goto(next, Append(log, Ev("runSetup", <<worktreePath, mode, r.script>>,
                                      r.executed, r.result)))

\* the setup step shared by both call sites of runSetup in commands.ts
SetupStep(next) ==
    \E env \in SetupEnvs :
        LET mode == SetupModeOf(cmd.options)
            r == runSetup(worktreePath, mode, env)
            ev == Ev("runSetup", <<worktreePath, mode, r.script>>, r.executed, r.result)
        IN  IF r.result THEN Goto(next, Append(log, ev))
            ELSE Exit(1, log \o <<ev, Note("error: Setup script exited with error")>>)

\* git.ts getBranchInfo and the summary lines of commands.ts
ReportStep ==
    \E b \in ExecQuiet(AbbrevRefHead(worktreePath)),
       u \in ExecQuiet(UpstreamOf(worktreePath)) :
        LET tracking == StripLeading(u, ORIGIN)
        IN  Exit(0, log \o <<Ev("rev-parse --abbrev-ref HEAD", <<worktreePath>>, b, b # EMPTY),
                            Ev("rev-parse --abbrev-ref @{u}", <<worktreePath>>, u, u # EMPTY),
                            Ev("report", <<dirName, b, tracking>>, EMPTY, TRUE)>>)

\* commands.ts handleExistingWorktree: runSetup
HandleExistingWorktree ==
    /\ pc = "handleExistingWorktree"
    /\ quietMode' = TRUE
    /\ SetupStep("reportExisting")
    /\ UNCHANGED <<cmd, runs, localVars, refVars, diskVars>>

\* commands.ts handleExistingWorktree: branch info and summary
ReportExisting ==
    /\ pc = "reportExisting"
    /\ quietMode' = FALSE
    /\ ReportStep
    /\ UNCHANGED <<cmd, runs, localVars, refVars, diskVars>>

\* git.ts ensureGitignore, called from setupPrerequisites
EnsureGitignore ==
    /\ pc = "ensureGitignore"
    /\ gitignore' = ensureGitignore(gitignore, WORKTREE_DIR)
    /\ Goto("ensureWorktreeDir",
            Append(log, Ev(IF ~gitignore.exists THEN "write .gitignore"
                           ELSE IF gitignore' # gitignore THEN "append .gitignore"
                           ELSE "read .gitignore",
                           << >>, EMPTY, TRUE)))
    /\ UNCHANGED <<cmd, runs, quietMode, localVars, refVars, worktrees, fsDirs>>

EnsureWorktreeDirSkipsFetch ==
    /\ pc = "ensureWorktreeDir"
    /\ IF ExistsSync(RootDirPath)
       THEN /\ Goto("resolveBranch", Append(log, ExistsEv(RootDirPath)))
            /\ UNCHANGED fsDirs
       ELSE /\ Goto("resolveBranch", log \o <<ExistsEv(RootDirPath), Note("mkdir")>>)
            /\ fsDirs' = fsDirs \cup {RootDirPath}
    /\ UNCHANGED <<cmd, runs, quietMode, localVars, refVars, worktrees, gitignore>>

\* commands.ts ensureWorktreeDir
EnsureWorktreeDir ==
    /\ pc = "ensureWorktreeDir"
    /\ IF ExistsSync(RootDirPath)
       THEN /\ Goto("fetchRemote", Append(log, ExistsEv(RootDirPath)))
            /\ UNCHANGED fsDirs
       ELSE /\ Goto("fetchRemote", log \o <<ExistsEv(RootDirPath), Note("mkdir")>>)
            /\ fsDirs' = fsDirs \cup {RootDirPath}
    /\ UNCHANGED <<cmd, runs, quietMode, localVars, refVars, worktrees, gitignore>>

FetchRemoteMustSucceed ==
    /\ pc = "fetchRemote"
    /\ \/ /\ remotes' = server
          /\ Goto("resolveBranch", Append(log, Ev("fetch", << >>, EMPTY, TRUE)))
       \/ /\ UNCHANGED remotes
          /\ \E f \in Failures(TRUE) : ExecAbort("fetch", << >>, f)
    /\ UNCHANGED <<cmd, runs, quietMode, localVars, heads, tags, server, upstream,
                   diskVars>>

\* git.ts fetchRemote: git fetch --quiet origin prints nothing; a failure is ''
FetchRemote ==
    /\ pc = "fetchRemote"
    /\ \/ /\ remotes' = [n \in (DOMAIN remotes) \cup (DOMAIN server) |->
                            IF n \in DOMAIN server THEN server[n] ELSE remotes[n]]
          /\ Goto("resolveBranch", Append(log, Ev("fetch", << >>, EMPTY, TRUE)))
       \/ /\ UNCHANGED remotes
          /\ Goto("resolveBranch", Append(log, Ev("fetch", << >>, EMPTY, FALSE)))
    /\ UNCHANGED <<cmd, runs, quietMode, localVars, heads, tags, server, upstream,
                   diskVars>>

\* git.ts branchExists / getBranchRef: git rev-parse --verify <branch>
VerifyEv(ref, out) == Ev("rev-parse --verify", <<ref>>, out, out # EMPTY)

ResolveFoundClean(branch, remoteOut, localOut) ==
    LET c == Classify(branch)
    IN  [type |-> IF remoteOut # EMPTY THEN "remote"
                  ELSE IF localOut # EMPTY THEN "local" ELSE "new",
         foundBranch |-> IF remoteOut # EMPTY \/ localOut # EMPTY
                         THEN c.cleanBranchName ELSE EMPTY,
         cleanBranchName |-> c.cleanBranchName]

\* git.ts resolveBranch, lines 47-70: the result for the two probe outputs
Resolve(branch, remoteOut, localOut) ==
    LET c == Classify(branch)
    IN  IF remoteOut # EMPTY
        THEN [type |-> "remote", foundBranch |-> c.remoteCandidate,
              cleanBranchName |-> c.cleanBranchName]
        ELSE IF localOut # EMPTY
        THEN [type |-> "local", foundBranch |-> c.cleanBranchName,
              cleanBranchName |-> c.cleanBranchName]
        ELSE [type |-> "new", foundBranch |-> EMPTY,
              cleanBranchName |-> c.cleanBranchName]

ResolveBranchLocalFirst ==
    /\ pc = "resolveBranch"
    /\ LET c == Classify(cmd.arg)
       IN  \E l \in ExecQuiet(RevParse(c.cleanBranchName)) :
               IF l # EMPTY
               THEN /\ resolution' = Resolve(cmd.arg, EMPTY, l)
                    /\ Goto("createFromLocalBranch",
                            Append(log, VerifyEv(c.cleanBranchName, l)))
               ELSE \E r \in ExecQuiet(RevParse(c.remoteCandidate)) :
                    /\ resolution' = Resolve(cmd.arg, r, l)
                    /\ Goto(IF r # EMPTY THEN "createFromRemoteBranch" ELSE "createNewBranch",
                            log \o <<VerifyEv(c.cleanBranchName, l),
                                     VerifyEv(c.remoteCandidate, r)>>)
    /\ UNCHANGED <<cmd, runs, quietMode, dirName, worktreePath, branchName, branchRef,
                   refVars, diskVars>>

\* git.ts resolveBranch, called from createWorktree, and the switch on its type
ResolveBranch ==
    /\ pc = "resolveBranch"
    /\ LET c == Classify(cmd.arg)
       IN  \E r \in ExecQuiet(RevParse(c.remoteCandidate)) :
               IF r # EMPTY
               THEN /\ resolution' = Resolve(cmd.arg, r, EMPTY)
                    /\ Goto("createFromRemoteBranch",
                            Append(log, VerifyEv(c.remoteCandidate, r)))
               ELSE \E l \in ExecQuiet(RevParse(c.cleanBranchName)) :
                    /\ resolution' = Resolve(cmd.arg, r, l)
                    /\ Goto(IF l # EMPTY THEN "createFromLocalBranch" ELSE "createNewBranch",
                            log \o <<VerifyEv(c.remoteCandidate, r),
                                     VerifyEv(c.cleanBranchName, l)>>)
    /\ UNCHANGED <<cmd, runs, quietMode, dirName, worktreePath, branchName, branchRef,
                   refVars, diskVars>>

\* git worktree add "<path>" "<branch>": checks out the local branch, or, for
\* another commit-ish, a detached HEAD
CanAddWorktree(path, branch) ==
    /\ ~ExistsSync(path)
    /\ StripTrailingSlash(path) \notin DOMAIN worktrees
    /\ IF branch \in DOMAIN heads THEN ~CheckedOut(branch) ELSE RevParse(branch) # EMPTY

AddWorktree(path, branch) ==
    /\ worktrees' = With(worktrees, path,
                         IF branch \in DOMAIN heads THEN branch ELSE HEADMARK)
    /\ fsDirs' = fsDirs \cup {RootDirPath, path}

\* git worktree add -b "<name>" "<path>" "<start>"
CanAddWorktreeNewBranch(name, path, start) ==
    /\ ~ExistsSync(path)
    /\ StripTrailingSlash(path) \notin DOMAIN worktrees
    /\ ValidBranchName(name)
    /\ name \notin DOMAIN heads
    /\ RevParse(start) # EMPTY

AddWorktreeNewBranch(name, path, start) ==
    /\ heads' = With(heads, name, RevParse(start))
    /\ worktrees' = With(worktrees, path, name)
    /\ fsDirs' = fsDirs \cup {RootDirPath, path}

\* cd "<path>" && git branch --set-upstream-to="<remoteBranch>"
CanSetUpstream(path, remoteBranch) ==
    /\ AbbrevRefHead(path) \in DOMAIN heads
    /\ \/ StripLeading(remoteBranch, ORIGIN) \in DOMAIN remotes
          /\ StartsWith(remoteBranch, ORIGIN)
       \/ remoteBranch \in DOMAIN heads

CreateFromRemoteBranchChecksBase ==
    /\ pc = "createFromRemoteBranch"
    /\ LET trackingBranchName == ReplaceFirst(resolution.foundBranch, ORIGIN, EMPTY)
           baseBranch == IF cmd.options.baseBranch # EMPTY THEN cmd.options.baseBranch
                         ELSE DEFAULT_BASE_BRANCH
       IN  /\ branchName' = trackingBranchName
           /\ IF RevParse(baseBranch) = EMPTY
              THEN Exit(1, log \o <<VerifyEv(baseBranch, EMPTY),
                                    Note("error: Base branch not found"),
                                    Ev("branch -a", << >>, EMPTY, TRUE)>>)
              ELSE \E out \in ExecQuiet(RevParse(trackingBranchName)) :
                       Goto(IF out # EMPTY THEN "createWorktreeWithExistingBranch"
                            ELSE "createWorktreeWithNewTrackingBranch",
                            Append(log, VerifyEv(trackingBranchName, out)))
    /\ UNCHANGED <<cmd, runs, quietMode, dirName, worktreePath, resolution, branchRef,
                   refVars, diskVars>>

\* git.ts createFromRemoteBranch
CreateFromRemoteBranch ==
    /\ pc = "createFromRemoteBranch"
    /\ LET trackingBranchName == ReplaceFirst(resolution.foundBranch, ORIGIN, EMPTY)
       IN  /\ branchName' = trackingBranchName
           /\ \E out \in ExecQuiet(RevParse(trackingBranchName)) :
                  Goto(IF out # EMPTY THEN "createWorktreeWithExistingBranch"
                       ELSE "createWorktreeWithNewTrackingBranch",
                       Append(log, VerifyEv(trackingBranchName, out)))
    /\ UNCHANGED <<cmd, runs, quietMode, dirName, worktreePath, resolution, branchRef,
                   refVars, diskVars>>

\* git.ts createWorktreeWithExistingBranch: the worktree add
CreateWorktreeWithExistingBranch ==
    /\ pc = "createWorktreeWithExistingBranch"
    /\ LET args == <<worktreePath, branchName>>
           ok == CanAddWorktree(worktreePath, branchName)
       IN  \/ /\ ok
              /\ AddWorktree(worktreePath, branchName)
              /\ Goto("ensureTracking", Append(log, Ev("worktree add", args, EMPTY, TRUE)))
           \/ /\ \E f \in Failures(ok) : ExecAbort("worktree add", args, f)
              /\ UNCHANGED <<worktrees, fsDirs>>
    /\ UNCHANGED <<cmd, runs, quietMode, localVars, refVars, gitignore>>

\* git.ts ensureTracking: the upstream query
EnsureTracking ==
    /\ pc = "ensureTracking"
    /\ \E u \in ExecQuiet(UpstreamOf(worktreePath)) :
          Goto(IF u = EMPTY THEN "setUpstream" ELSE "runSetup",
               Append(log, Ev("rev-parse --abbrev-ref @{u}", <<worktreePath>>, u, u # EMPTY)))
    /\ UNCHANGED <<cmd, runs, quietMode, localVars, refVars, diskVars>>

\* git.ts createWorktreeWithNewTrackingBranch: the worktree add -b
CreateWorktreeWithNewTrackingBranch ==
    /\ pc = "createWorktreeWithNewTrackingBranch"
    /\ LET args == <<branchName, worktreePath, resolution.foundBranch>>
           ok == CanAddWorktreeNewBranch(branchName, worktreePath, resolution.foundBranch)
       IN  \/ /\ ok
              /\ AddWorktreeNewBranch(branchName, worktreePath, resolution.foundBranch)
              /\ Goto("setUpstream", Append(log, Ev("worktree add -b", args, EMPTY, TRUE)))
           \/ /\ \E f \in Failures(ok) : ExecAbort("worktree add -b", args, f)
              /\ UNCHANGED <<heads, worktrees, fsDirs>>
    /\ UNCHANGED <<cmd, runs, quietMode, localVars, remotes, tags, server, upstream,
                   gitignore>>

SetUpstreamRollsBack ==
    /\ pc = "setUpstream"
    /\ LET args == <<worktreePath, resolution.foundBranch>>
           ok == CanSetUpstream(worktreePath, resolution.foundBranch)
       IN  \/ /\ ok
              /\ upstream' = With(upstream, AbbrevRefHead(worktreePath),
                                  resolution.foundBranch)
              /\ Goto("runSetup", Append(log, Ev("set-upstream-to", args, EMPTY, TRUE)))
              /\ UNCHANGED <<worktrees, fsDirs>>
           \/ /\ \E f \in Failures(ok) :
                     Exit(ExitStatusOf(f),
                          log \o <<Failed("set-upstream-to", args, f),
                                   Ev("worktree remove", <<worktreePath>>, EMPTY, TRUE)>>)
              /\ worktrees' = Without(worktrees, worktreePath)
              /\ fsDirs' = fsDirs \ {worktreePath}
              /\ UNCHANGED upstream
    /\ UNCHANGED <<cmd, runs, quietMode, localVars, heads, remotes, tags, server,
                   gitignore>>

\* git.ts ensureTracking / createWorktreeWithNewTrackingBranch: set-upstream-to
SetUpstream ==
    /\ pc = "setUpstream"
    /\ LET args == <<worktreePath, resolution.foundBranch>>
           ok == CanSetUpstream(worktreePath, resolution.foundBranch)
       IN  \/ /\ ok
              /\ upstream' = With(upstream, AbbrevRefHead(worktreePath),
                                  resolution.foundBranch)
              /\ Goto("runSetup", Append(log, Ev("set-upstream-to", args, EMPTY, TRUE)))
           \/ /\ \E f \in Failures(ok) : ExecAbort("set-upstream-to", args, f)
              /\ UNCHANGED upstream
    /\ UNCHANGED <<cmd, runs, quietMode, localVars, heads, remotes, tags, server,
                   diskVars>>

CreateFromLocalBranchRetry ==
    /\ pc = "createFromLocalBranch"
    /\ LET args == <<worktreePath, resolution.foundBranch>>
           ok == CanAddWorktree(worktreePath, resolution.foundBranch)
       IN  \/ /\ ok
              /\ AddWorktree(worktreePath, resolution.foundBranch)
              /\ Goto("runSetup", Append(log, Ev("worktree add", args, EMPTY, TRUE)))
           \/ /\ \E f \in Failures(ok) :
                     IF \E i \in DOMAIN log : log[i].op = "worktree add"
                     THEN ExecAbort("worktree add", args, f)
                     ELSE Goto("createFromLocalBranch",
                               Append(log, Failed("worktree add", args, f)))
              /\ UNCHANGED <<worktrees, fsDirs>>
    /\ UNCHANGED <<cmd, runs, quietMode, localVars, refVars, gitignore>>

\* git.ts createFromLocalBranch
CreateFromLocalBranch ==
    /\ pc = "createFromLocalBranch"
    /\ LET args == <<worktreePath, resolution.foundBranch>>
           ok == CanAddWorktree(worktreePath, resolution.foundBranch)
       IN  \/ /\ ok
              /\ AddWorktree(worktreePath, resolution.foundBranch)
              /\ Goto("runSetup", Append(log, Ev("worktree add", args, EMPTY, TRUE)))
           \/ /\ \E f \in Failures(ok) : ExecAbort("worktree add", args, f)
              /\ UNCHANGED <<worktrees, fsDirs>>
    /\ UNCHANGED <<cmd, runs, quietMode, localVars, refVars, gitignore>>

BaseBranchAlwaysDefault(options) == DEFAULT_BASE_BRANCH

\* git.ts createNewBranch: baseBranchOption || DEFAULT_BASE_BRANCH
BaseBranchOf(options) ==
    IF options.baseBranch # EMPTY THEN options.baseBranch ELSE DEFAULT_BASE_BRANCH

CreateNewBranchNoExit ==
    /\ pc = "createNewBranch"
    /\ LET baseBranch == BaseBranchOf(cmd.options)
       IN  \E out \in ExecQuiet(RevParse(baseBranch)) :
               LET probe == VerifyEv(baseBranch, out)
               IN  IF out # EMPTY
                   THEN Goto("getBranchRef", Append(log, probe))
                   ELSE Goto("getBranchRef",
                             log \o <<probe, Note("error: Base branch not found"),
                                      Ev("branch -a", << >>, EMPTY, TRUE)>>)
    /\ UNCHANGED <<cmd, runs, quietMode, localVars, refVars, diskVars>>

\* git.ts createNewBranch: the base-branch check
CreateNewBranch ==
    /\ pc = "createNewBranch"
    /\ LET baseBranch == BaseBranchOf(cmd.options)
       IN  \E out \in ExecQuiet(RevParse(baseBranch)) :
               LET probe == VerifyEv(baseBranch, out)
               IN  IF out # EMPTY
                   THEN Goto("getBranchRef", Append(log, probe))
                   ELSE \/ Exit(1, log \o <<probe, Note("error: Base branch not found"),
                                            Ev("branch -a", << >>, EMPTY, TRUE)>>)
                        \/ \E f \in Failures(TRUE) :
                               Exit(ExitStatusOf(f),
                                    log \o <<probe, Note("error: Base branch not found"),
                                             Failed("branch -a", << >>, f)>>)
    /\ UNCHANGED <<cmd, runs, quietMode, localVars, refVars, diskVars>>

\* git.ts createNewBranch: getBranchRef(baseBranch)
GetBranchRef ==
    /\ pc = "getBranchRef"
    /\ LET baseBranch == BaseBranchOf(cmd.options)
       IN  \E out \in ExecQuiet(RevParse(baseBranch)) :
               /\ branchRef' = out
               /\ Goto("addNewBranch", Append(log, VerifyEv(baseBranch, out)))
    /\ UNCHANGED <<cmd, runs, quietMode, dirName, worktreePath, resolution, branchName,
                   refVars, diskVars>>

\* git.ts createNewBranch: the worktree add -b
AddNewBranch ==
    /\ pc = "addNewBranch"
    /\ LET args == <<resolution.cleanBranchName, worktreePath, branchRef>>
           ok == CanAddWorktreeNewBranch(resolution.cleanBranchName, worktreePath, branchRef)
       IN  \/ /\ ok
              /\ AddWorktreeNewBranch(resolution.cleanBranchName, worktreePath, branchRef)
              /\ Goto("runSetup", Append(log, Ev("worktree add -b", args, EMPTY, TRUE)))
           \/ /\ \E f \in Failures(ok) : ExecAbort("worktree add -b", args, f)
              /\ UNCHANGED <<heads, worktrees, fsDirs>>
    /\ UNCHANGED <<cmd, runs, quietMode, localVars, remotes, tags, server, upstream,
                   gitignore>>

\* commands.ts createWorktree: runSetup after a fresh creation
RunSetup ==
    /\ pc = "runSetup"
    /\ SetupStep("report")
    /\ UNCHANGED <<cmd, runs, quietMode, localVars, refVars, diskVars>>

\* commands.ts createWorktree: branch info and summary
Report ==
    /\ pc = "report"
    /\ quietMode' = FALSE
    /\ ReportStep
    /\ UNCHANGED <<cmd, runs, localVars, refVars, diskVars>>

----------------------------------------------------------------------------
(* remove, list, prune (commands.ts) *)

\* removeWorktree: getProjectRoot and the path
RemoveWorktree ==
    /\ pc = "removeWorktree"
    /\ \/ /\ Goto("removeCheck",
                  Append(log, Ev("rev-parse --show-toplevel", << >>, PROJECT_ROOT, TRUE)))
          /\ worktreePath' = PathJoin(<<PROJECT_ROOT, WORKTREE_DIR, cmd.arg>>)
       \/ /\ \E f \in Failures(TRUE) : ExecAbort("rev-parse --show-toplevel", << >>, f)
          /\ UNCHANGED worktreePath
    /\ UNCHANGED <<cmd, runs, quietMode, dirName, resolution, branchName, branchRef,
                   refVars, diskVars>>

RemoveCheckNoExit ==
    /\ pc = "removeCheck"
    /\ IF ExistsSync(worktreePath)
       THEN Goto("captureBranch", Append(log, ExistsEv(worktreePath)))
       ELSE Goto("captureBranch",
                 log \o <<ExistsEv(worktreePath), Note("error: Worktree not found"),
                          Ev("worktree list", << >>, EMPTY, TRUE)>>)
    /\ UNCHANGED <<cmd, runs, quietMode, localVars, refVars, diskVars>>

\* removeWorktree: the existence check
RemoveCheck ==
    /\ pc = "removeCheck"
    /\ IF ExistsSync(worktreePath)
       THEN Goto("captureBranch", Append(log, ExistsEv(worktreePath)))
       ELSE \/ Exit(1, log \o <<ExistsEv(worktreePath), Note("error: Worktree not found"),
                                Ev("worktree list", << >>, EMPTY, TRUE)>>)
            \/ \E f \in Failures(TRUE) :
                   Exit(ExitStatusOf(f),
                        log \o <<ExistsEv(worktreePath), Note("error: Worktree not found"),
                                 Failed("worktree list", << >>, f)>>)
    /\ UNCHANGED <<cmd, runs, quietMode, localVars, refVars, diskVars>>

CaptureBranchByName ==
    /\ pc = "captureBranch"
    /\ \E b \in ExecQuiet(cmd.arg) :
          /\ branchName' = b
          /\ Goto("worktreeRemove",
                  Append(log, Ev("rev-parse --abbrev-ref HEAD", <<worktreePath>>, b, b # EMPTY)))
    /\ quietMode' = TRUE
    /\ UNCHANGED <<cmd, runs, dirName, worktreePath, resolution, branchRef,
                   refVars, diskVars>>

\* removeWorktree: the branch name checked out in the worktree
CaptureBranch ==
    /\ pc = "captureBranch"
    /\ \E b \in ExecQuiet(AbbrevRefHead(worktreePath)) :
          /\ branchName' = b
          /\ Goto("worktreeRemove",
                  Append(log, Ev("rev-parse --abbrev-ref HEAD", <<worktreePath>>, b, b # EMPTY)))
    /\ quietMode' = TRUE
    /\ UNCHANGED <<cmd, runs, dirName, worktreePath, resolution, branchRef,
                   refVars, diskVars>>

\* git worktree remove "<path>" --force
CanRemoveWorktree(path) ==
    /\ StripTrailingSlash(path) \in DOMAIN worktrees
    /\ StripTrailingSlash(path) # PROJECT_ROOT

\* removeWorktree: the forced worktree remove
WorktreeRemove ==
    /\ pc = "worktreeRemove"
    /\ LET ok == CanRemoveWorktree(worktreePath)
           p == StripTrailingSlash(worktreePath)
       IN  \/ /\ ok
              /\ worktrees' = Without(worktrees, p)
              /\ fsDirs' = fsDirs \ {p}
              /\ Goto("branchDelete",
                      Append(log, Ev("worktree remove", <<worktreePath>>, EMPTY, TRUE)))
           \/ /\ \E f \in Failures(ok) : ExecAbort("worktree remove", <<worktreePath>>, f)
              /\ UNCHANGED <<worktrees, fsDirs>>
    /\ UNCHANGED <<cmd, runs, quietMode, localVars, refVars, gitignore>>

DELETED == <<"D","e","l","e","t","e","d">>

\* git branch -D "<name>"
CanDeleteBranch(name) == name \in DOMAIN heads /\ ~CheckedOut(name)

ShouldDeleteBranchAnyName(name) == name # EMPTY

\* removeWorktree: the guarded branch delete
ShouldDeleteBranch(name) == name # EMPTY /\ name # HEADMARK

BranchDeleteFatal ==
    /\ pc = "branchDelete"
    /\ IF ShouldDeleteBranch(branchName)
       THEN \/ /\ CanDeleteBranch(branchName)
               /\ heads' = Without(heads, branchName)
               /\ upstream' = IF branchName \in DOMAIN upstream
                              THEN Without(upstream, branchName) ELSE upstream
               /\ Goto("removeSummary",
                       Append(log, Ev("branch -D", <<branchName>>, DELETED, TRUE)))
            \/ /\ UNCHANGED <<heads, upstream>>
               /\ Exit(1, Append(log, Ev("branch -D", <<branchName>>, EMPTY, FALSE)))
       ELSE /\ UNCHANGED <<heads, upstream>>
            /\ Goto("removeSummary", log)
    /\ quietMode' = FALSE
    /\ UNCHANGED <<cmd, runs, localVars, remotes, tags, server, diskVars>>

BranchDelete ==
    /\ pc = "branchDelete"
    /\ IF ShouldDeleteBranch(branchName)
       THEN \/ /\ CanDeleteBranch(branchName)
               /\ heads' = Without(heads, branchName)
               /\ upstream' = IF branchName \in DOMAIN upstream
                              THEN Without(upstream, branchName) ELSE upstream
               /\ Goto("removeSummary",
                       Append(log, Ev("branch -D", <<branchName>>, DELETED, TRUE)))
            \/ /\ UNCHANGED <<heads, upstream>>
               /\ Goto("removeSummary",
                       Append(log, Ev("branch -D", <<branchName>>, EMPTY, FALSE)))
       ELSE /\ UNCHANGED <<heads, upstream>>
            /\ Goto("removeSummary", log)
    /\ quietMode' = FALSE
    /\ UNCHANGED <<cmd, runs, localVars, remotes, tags, server, diskVars>>

\* removeWorktree: the summary and the final listing
RemoveSummary ==
    /\ pc = "removeSummary"
    /\ \/ Exit(0, log \o <<Ev("removed", <<cmd.arg>>, EMPTY, TRUE),
                           Ev("worktree list", << >>, EMPTY, TRUE)>>)
       \/ \E f \in Failures(TRUE) :
              Exit(ExitStatusOf(f),
                   log \o <<Ev("removed", <<cmd.arg>>, EMPTY, TRUE),
                            Failed("worktree list", << >>, f)>>)
    /\ UNCHANGED <<cmd, runs, quietMode, localVars, refVars, diskVars>>

\* listWorktrees
ListWorktrees ==
    /\ pc = "listWorktrees"
    /\ \/ Exit(0, Append(log, Ev("worktree list", << >>, EMPTY, TRUE)))
       \/ \E f \in Failures(TRUE) : InteractiveAbort("worktree list", f)
    /\ UNCHANGED <<cmd, runs, quietMode, localVars, refVars, diskVars>>

PruneWorktreesNoListing ==
    /\ pc = "pruneWorktrees"
    /\ \/ /\ worktrees' = [p \in {q \in DOMAIN worktrees : q \in fsDirs} |-> worktrees[p]]
          /\ Exit(0, Append(log, Ev("worktree prune", << >>, EMPTY, TRUE)))
       \/ /\ \E f \in Failures(TRUE) : InteractiveAbort("worktree prune", f)
          /\ UNCHANGED worktrees
    /\ UNCHANGED <<cmd, runs, quietMode, localVars, refVars, fsDirs, gitignore>>

\* pruneWorktrees: git worktree prune -v drops registrations whose directory is gone
PruneWorktrees ==
    /\ pc = "pruneWorktrees"
    /\ \/ /\ worktrees' = [p \in {q \in DOMAIN worktrees : q \in fsDirs} |-> worktrees[p]]
          /\ Goto("listWorktrees", Append(log, Ev("worktree prune", << >>, EMPTY, TRUE)))
       \/ /\ \E f \in Failures(TRUE) : InteractiveAbort("worktree prune", f)
          /\ UNCHANGED worktrees
    /\ UNCHANGED <<cmd, runs, quietMode, localVars, refVars, fsDirs, gitignore>>

----------------------------------------------------------------------------
Next ==
    \/ Invoke
    \/ CliAction
    \/ PrepareWorktreePaths
    \/ CheckExisting
    \/ HandleExistingWorktree
    \/ ReportExisting
    \/ EnsureGitignore
    \/ EnsureWorktreeDir
    \/ FetchRemote
    \/ ResolveBranch
    \/ CreateFromRemoteBranch
    \/ CreateWorktreeWithExistingBranch
    \/ EnsureTracking
    \/ CreateWorktreeWithNewTrackingBranch
    \/ SetUpstream
    \/ CreateFromLocalBranch
    \/ CreateNewBranch
    \/ GetBranchRef
    \/ AddNewBranch
    \/ RunSetup
    \/ Report
    \/ RemoveWorktree
    \/ RemoveCheck
    \/ CaptureBranch
    \/ WorktreeRemove
    \/ BranchDelete
    \/ RemoveSummary
    \/ ListWorktrees
    \/ PruneWorktrees

Spec == Init /\ [][Next]_vars

----------------------------------------------------------------------------
(* The pure functions applied to every bounded token *)

TailChars == {"x", "X", "7", "_", "-", "/", ".", " "}

SeqsUpTo(S, n) == UNION {[1..k -> S] : k \in 0..n}

RECURSIVE Flatten(_)
Flatten(ss) == IF ss = << >> THEN EMPTY ELSE Head(ss) \o Flatten(Tail(ss))

\* non-empty tokens: up to MaxPrefix prefixes, then up to MaxTail characters
PureTokens ==
    {Flatten(ps) \o t : ps \in SeqsUpTo({ORIGIN, REMOTES, CLAUDE}, MaxPrefix),
                        t \in SeqsUpTo(TailChars, MaxTail)} \ {EMPTY}

InitPure ==
    /\ pc = "pure"
    /\ \E t \in PureTokens : cmd = [kind |-> "create", arg |-> t, options |-> NoOptions]
    /\ runs = 0
    /\ FreshProcess
    /\ heads = BareRefs.heads
    /\ remotes = NoRefs
    /\ server = NoRefs
    /\ tags = NoRefs
    /\ upstream = NoRefs
    /\ fsDirs = {SLASH, PROJECT_ROOT}
    /\ gitignore = NoFile
    /\ worktrees = RefsOn({PROJECT_ROOT}, MAIN)

\* resolveBranch(token), for every answer the two probes can give
ApplyResolveBranch ==
    /\ pc = "pure"
    /\ pc' = "pureResolved"
    /\ \E r \in {EMPTY, C_REMOTE}, l \in {EMPTY, C_LOCAL} :
          resolution' = Resolve(cmd.arg, r, l)
    /\ UNCHANGED <<cmd, runs, log, exitCode, quietMode, dirName, worktreePath,
                   branchName, branchRef, refVars, diskVars>>

\* getWorktreeName(token) and getWorktreePath(root, token)
ApplyGetWorktreeName ==
    /\ pc = "pureResolved"
    /\ pc' = "pureDone"
    /\ dirName' = getWorktreeName(cmd.arg)
    /\ worktreePath' = getWorktreePath(PathJoin(<<PROJECT_ROOT, WORKTREE_DIR>>), cmd.arg)
    /\ UNCHANGED <<cmd, runs, log, exitCode, quietMode, resolution,
                   branchName, branchRef, refVars, diskVars>>

NextPure == ApplyResolveBranch \/ ApplyGetWorktreeName

SpecPure == InitPure /\ [][NextPure]_vars

----------------------------------------------------------------------------
(* ensureGitignore applied repeatedly to every bounded .gitignore *)

\* most lines of the .gitignore before the first call
MaxLines == 2
\* most calls of ensureGitignore in one behaviour
MaxCalls == 3

\* lines a .gitignore may hold: the entry with and without its slash, lines the
\* regular expression also accepts or rejects, other entries, the comment, blanks
IgnoreLines ==
    {EMPTY,
     WORKTREE_DIR \o SLASH,
     WORKTREE_DIR,
     <<"x">> \o Tail(WORKTREE_DIR) \o SLASH,
     WORKTREE_DIR \o SLASH \o X,
     <<" ">> \o WORKTREE_DIR \o SLASH,
     NODE_MODULES,
     GITIGNORE_COMMENT}

IgnoreFiles ==
    {NoFile} \cup {[exists |-> TRUE, lines |-> ls] : ls \in SeqsUpTo(IgnoreLines, MaxLines) \ {<< >>}}

InitIgnore ==
    /\ pc = "ignore"
    /\ cmd = [kind |-> "create", arg |-> X, options |-> NoOptions]
    /\ runs = 0
    /\ FreshProcess
    /\ heads = BareRefs.heads
    /\ remotes = NoRefs
    /\ server = NoRefs
    /\ tags = NoRefs
    /\ upstream = NoRefs
    /\ fsDirs = {SLASH, PROJECT_ROOT}
    /\ worktrees = RefsOn({PROJECT_ROOT}, MAIN)
    /\ \E f \in IgnoreFiles : gitignore = f

\* ensureGitignore(projectRoot, WORKTREE_DIR); runs counts the calls
ApplyEnsureGitignore ==
    /\ pc = "ignore"
    /\ runs < MaxCalls
    /\ runs' = runs + 1
    /\ gitignore' = ensureGitignore(gitignore, WORKTREE_DIR)
    /\ log' = Append(log, Ev(IF ~gitignore.exists THEN "write .gitignore"
                             ELSE IF gitignore' # gitignore THEN "append .gitignore"
                             ELSE "read .gitignore",
                             << >>, EMPTY, TRUE))
    /\ UNCHANGED <<pc, cmd, exitCode, quietMode, localVars, refVars, worktrees, fsDirs>>

NextIgnore == ApplyEnsureGitignore

SpecIgnore == InitIgnore /\ [][NextIgnore]_vars

----------------------------------------------------------------------------
(* The option mapping of the default command (index.ts) *)

\* JavaScript values of the parsed options: undefined, a boolean, a string
JsUndefined == [type |-> "undefined", bool |-> FALSE, str |-> EMPTY]
JsBool(b) == [type |-> "boolean", bool |-> b, str |-> EMPTY]
JsString(str) == [type |-> "string", bool |-> FALSE, str |-> str]

createOptionsTruthy(options) ==
    [skipSetup |-> options.setup \in {JsBool(FALSE), JsString(EMPTY), JsUndefined},
     setupScript |-> IF options.setup.type = "string" THEN options.setup ELSE JsUndefined,
     baseBranch |-> options.base]

\* index.ts: createOptions, from Commander's options (--no-setup gives setup: false)
createOptions(options) ==
    [skipSetup |-> options.setup = JsBool(FALSE),
     setupScript |-> IF options.setup.type = "string" THEN options.setup ELSE JsUndefined,
     baseBranch |-> options.base]

NoCreateOptions ==
    [skipSetup |-> FALSE, setupScript |-> JsUndefined, baseBranch |-> JsUndefined]

\* values of options.setup: true by default, false for -n, the argument of -s
ParsedSetups ==
    {JsBool(TRUE), JsBool(FALSE)}
    \cup {JsString(path) : path \in SeqsUpTo({"/", "s", "."}, MaxTail)}

\* values of options.base: absent, or the argument of -b
ParsedBases == {JsUndefined} \cup {JsString(b) : b \in {X, Y, MAIN}}

InitOptions ==
    /\ pc = "options"
    /\ \E setup \in ParsedSetups, base \in ParsedBases :
          cmd = [kind |-> "create", arg |-> X, options |-> NoCreateOptions,
                 parsed |-> [setup |-> setup, base |-> base]]
    /\ runs = 0
    /\ FreshProcess
    /\ heads = BareRefs.heads
    /\ remotes = NoRefs
    /\ server = NoRefs
    /\ tags = NoRefs
    /\ upstream = NoRefs
    /\ fsDirs = {SLASH, PROJECT_ROOT}
    /\ gitignore = NoFile
    /\ worktrees = RefsOn({PROJECT_ROOT}, MAIN)

\* the action callback builds createOptions from the parsed options
ApplyCreateOptions ==
    /\ pc = "options"
    /\ pc' = "optionsDone"
    /\ cmd' = [cmd EXCEPT !.options = createOptions(cmd.parsed)]
    /\ UNCHANGED <<runs, log, exitCode, quietMode, localVars, refVars, diskVars>>

NextOptions == ApplyCreateOptions

SpecOptions == InitOptions /\ [][NextOptions]_vars

----------------------------------------------------------------------------
(* A create followed by the remove of the same worktree *)

\* `workspace <token>`, and after it succeeded `workspace remove <name>` with the
\* directory name of the token; cmd also records the local branches before the
\* create and the branch checked out in the worktree before the remove
InvokeRoundTrip ==
    /\ \/ /\ pc = "idle"
          /\ \E c \in CreateInvocations :
                /\ c.arg # EMPTY
                /\ cmd' = [kind |-> "create", arg |-> c.arg, options |-> c.options,
                           before |-> heads, checkedOut |-> EMPTY]
       \/ /\ pc = "exited"
          /\ cmd.kind = "create"
          /\ exitCode = 0
          /\ cmd' = [kind |-> "remove", arg |-> getWorktreeName(cmd.arg),
                     options |-> NoOptions, before |-> cmd.before,
                     checkedOut |->
                         AbbrevRefHead(PathJoin(<<PROJECT_ROOT, WORKTREE_DIR,
                                                  getWorktreeName(cmd.arg)>>))]
    /\ runs' = runs + 1
    /\ pc' = "cli"
    /\ StartProcess
    /\ UNCHANGED <<refVars, diskVars>>

NextRoundTrip ==
    \/ InvokeRoundTrip
    \/ CliAction
    \/ PrepareWorktreePaths
    \/ CheckExisting
    \/ HandleExistingWorktree
    \/ ReportExisting
    \/ EnsureGitignore
    \/ EnsureWorktreeDir
    \/ FetchRemote
    \/ ResolveBranch
    \/ CreateFromRemoteBranch
    \/ CreateWorktreeWithExistingBranch
    \/ EnsureTracking
    \/ CreateWorktreeWithNewTrackingBranch
    \/ SetUpstream
    \/ CreateFromLocalBranch
    \/ CreateNewBranch
    \/ GetBranchRef
    \/ AddNewBranch
    \/ RunSetup
    \/ Report
    \/ RemoveWorktree
    \/ RemoveCheck
    \/ CaptureBranch
    \/ WorktreeRemove
    \/ BranchDelete
    \/ RemoveSummary

SpecRoundTrip == Init /\ [][NextRoundTrip]_vars

----------------------------------------------------------------------------
(* Properties *)

HasOp(op) == \E i \in DOMAIN log : log[i].op = op
HasOk(op) == \E i \in DOMAIN log : log[i].op = op /\ log[i].ok
OpsFrom(k) == [i \in 1..(Len(log) - k + 1) |-> log[i + k - 1].op]

VERIFY == "rev-parse --verify"
AfterResolve ==
    pc \in {"createFromRemoteBranch", "createFromLocalBranch", "createNewBranch"}

\* the probe for ref answered with an object
Said(ref) ==
    \E i \in DOMAIN log : log[i].op = VERIFY /\ log[i].args = <<ref>> /\ log[i].out # EMPTY

\* every probe so far answered what the repository holds
ProbesTruthful ==
    \A i \in DOMAIN log : log[i].op = VERIFY => log[i].out = RevParse(log[i].args[1])

Decides(c, remoteExists, localExists) ==
    /\ remoteExists =>
           resolution.type = "remote" /\ resolution.foundBranch = c.remoteCandidate
    /\ resolution.type = "local" <=> (~remoteExists /\ localExists)
    /\ resolution.type = "local" => resolution.foundBranch = c.cleanBranchName
    /\ resolution.type = "new" <=> (~remoteExists /\ ~localExists)
    /\ resolution.type = "new" => resolution.foundBranch = EMPTY

C2_CleanNameHasNoRemotePrefix ==
    pc \in {"pureResolved", "pureDone"} =>
        /\ ~StartsWith(resolution.cleanBranchName, ORIGIN)
        /\ ~StartsWith(resolution.cleanBranchName, REMOTES_ORIGIN)

ReusePath ==
    /\ cmd.kind = "create"
    /\ Len(log) >= 3
    /\ log[3].op = "existsSync"
    /\ log[3].ok

ABBREV_HEAD == "rev-parse --abbrev-ref HEAD"
UPSTREAM_QUERY == "rev-parse --abbrev-ref @{u}"
CreationOps ==
    {VERIFY, "fetch", "mkdir", "read .gitignore", "write .gitignore", "append .gitignore",
     "worktree add", "worktree add -b", "set-upstream-to"}

\* C3: createWorktree for a token whose worktreePath already exists on disk
\* invokes no branch-resolution probe, no Prepare step and no worktree-add; only
\* runSetup and then the report with a fresh branch / upstream query occur.
C3_ReuseSkipsCreation ==
    ReusePath =>
        /\ \A i \in DOMAIN log : log[i].op \notin CreationOps
        /\ OpsFrom(4) \in
               {<< >>,
                <<"runSetup">>,
                <<"runSetup", "error: Setup script exited with error">>,
                <<"runSetup", ABBREV_HEAD, UPSTREAM_QUERY, "report">>}
        /\ pc = "exited" => Len(log) > 4
        /\ HasOp("report") => log[4].ok

C3_Witness_ReuseReported ==
    /\ ReusePath
    /\ pc = "exited"
    /\ exitCode = 0
    /\ HasOp("report")

AbsentOnRemove ==
    /\ cmd.kind = "remove"
    /\ Len(log) >= 3
    /\ log[3].op = "existsSync"
    /\ ~log[3].ok

\* C4: removeWorktree(name) with the path absent on disk terminates with a failure
\* exit status and never invokes worktree-remove or branch-delete; the only git
\* command after the existence check is the diagnostic worktree listing.
C4_RemoveAbsentFails ==
    AbsentOnRemove =>
        /\ pc = "exited"
        /\ exitCode # 0
        /\ OpsFrom(4) = <<"error: Worktree not found", "worktree list">>

C4_Witness_RemoveAbsent ==
    /\ AbsentOnRemove
    /\ pc = "exited"
    /\ exitCode = 1

Captured == log[4].out

\* C5: in removeWorktree the forced branch delete is invoked if and only if the
\* captured branch name is non-empty and not the detached-head marker HEAD; for a
\* detached worktree or a failed capture no deletion is attempted and the removal
\* still completes: the summary is printed and the exit status is 0 unless the
\* closing worktree listing fails.
C5_DeleteOnlyNamedBranch ==
    (cmd.kind = "remove" /\ HasOk("worktree remove")) =>
        /\ log[4].op = ABBREV_HEAD
        /\ branchName = Captured
        /\ \A i \in DOMAIN log : log[i].op = "branch -D" =>
               /\ log[i].args = <<Captured>>
               /\ Captured # EMPTY
               /\ Captured # HEADMARK
               /\ i > 5
        /\ pc \in {"removeSummary", "exited"} =>
               (HasOp("branch -D") <=> (Captured # EMPTY /\ Captured # HEADMARK))
        /\ (pc = "exited" /\ Captured \in {EMPTY, HEADMARK}) =>
               /\ OpsFrom(5) = <<"worktree remove", "removed", "worktree list">>
               /\ log[Len(log)].ok => exitCode = 0

C5_Witness_DetachedRemoved ==
    /\ cmd.kind = "remove"
    /\ pc = "exited"
    /\ HasOk("worktree remove")
    /\ Captured = HEADMARK
    /\ exitCode = 0

SetupFailed ==
    /\ cmd.kind = "create"
    /\ \E i \in DOMAIN log : log[i].op = "runSetup" /\ ~log[i].ok

\* C6: if runSetup reports failure during createWorktree (fresh or reuse path) the
\* process exits with a failure status, no report is emitted, and the worktree
\* stays in place: no worktree-remove or branch-delete is invoked.
C6_SetupFailureKeepsWorktree ==
    SetupFailed =>
        /\ pc = "exited"
        /\ exitCode # 0
        /\ ~HasOp("report")
        /\ ~HasOp("worktree remove")
        /\ ~HasOp("branch -D")
        /\ ExistsSync(worktreePath)
        /\ (HasOk("worktree add") \/ HasOk("worktree add -b")) =>
               worktreePath \in DOMAIN worktrees

C6_Witness_SetupFailedAfterCreation ==
    /\ SetupFailed
    /\ HasOk("worktree add -b")
    /\ pc = "exited"

\* C7: every termination of the tool has exit status 0 or 1, whatever exit status
\* the failing external command returned.
C7_ExitStatusZeroOrOne ==
    pc = "exited" => exitCode \in {0, 1}

MustSucceedOps ==
    {"rev-parse --show-toplevel", "worktree add", "worktree add -b", "set-upstream-to",
     "worktree remove"}

ProbeOps == {"fetch", VERIFY, UPSTREAM_QUERY, ABBREV_HEAD, "branch -D"}

\* C9: best-effort probes never terminate the process: after a failed fetch,
\* ref-existence check, upstream query, current-branch query or branch delete
\* the operation goes on with an empty result; a failed fetch never keeps
\* createWorktree from reaching the dispatch on the resolution.
C9_ProbesNeverAbort ==
    /\ \A i \in DOMAIN log :
           (log[i].op \in ProbeOps /\ ~log[i].ok) =>
               /\ log[i].out = EMPTY
               /\ i = Len(log) => pc # "exited"
               /\ i < Len(log) => log[i + 1].op # "error: Command failed"
    /\ \A i \in DOMAIN log :
           log[i].op = "fetch" =>
               \/ pc = "resolveBranch"
               \/ \E j \in DOMAIN log : j > i /\ log[j].op = VERIFY
    /\ pc = "resolveBranch" => ENABLED ResolveBranch

C9_Witness_FetchFailedCreated ==
    /\ pc = "exited"
    /\ exitCode = 0
    /\ \E i \in DOMAIN log : log[i].op = "fetch" /\ ~log[i].ok
    /\ HasOp("report")
    /\ worktreePath \in DOMAIN worktrees

\* C10: for every branch token getWorktreeName returns a non-empty string
\* consisting only of characters in [A-Za-z0-9_-].
C10_NameNonEmptyAndSafe ==
    pc = "pureDone" =>
        /\ dirName # EMPTY
        /\ \A i \in DOMAIN dirName : dirName[i] \in SafeChars

\* C11: getWorktreeName is idempotent and a function of the token alone:
\* getWorktreeName(getWorktreeName(t)) = getWorktreeName(t) for every token t, and
\* the second call made for the path gives the name the first call gave.
C11_NameIdempotent ==
    pc = "pureDone" =>
        /\ getWorktreeName(dirName) = dirName
        /\ worktreePath = PathJoin(<<RootDirPath, dirName>>)

C11_Witness_DoublePrefixNamed ==
    /\ pc = "pureDone"
    /\ StartsWith(cmd.arg, ORIGIN \o ORIGIN)
    /\ Len(dirName) > Len(ORIGIN)

\* the token after its leading origin/
AfterOrigin == SubSeq(cmd.arg, Len(ORIGIN) + 1, Len(cmd.arg))

\* C12 (as stated): for every token t, getWorktreeName("origin/" + t) =
\* getWorktreeName(t).
C12_OriginPrefixIrrelevant ==
    (pc = "pureDone" /\ StartsWith(cmd.arg, ORIGIN)) =>
        dirName = getWorktreeName(AfterOrigin)

\* C12 (amended): exactly one leading origin/ is stripped before sanitising, so
\* getWorktreeName("origin/" + t) is the sanitised t for every t, and equals
\* getWorktreeName(t) for every t that does not itself start with origin/.
C12_OneOriginPrefixStripped ==
    (pc = "pureDone" /\ StartsWith(cmd.arg, ORIGIN)) =>
        /\ dirName = sanitizeBranchName(AfterOrigin)
        /\ ~StartsWith(AfterOrigin, ORIGIN) => dirName = getWorktreeName(AfterOrigin)

C12_Witness_PrefixedTokenNamed ==
    /\ pc = "pureDone"
    /\ cmd.arg = ORIGIN \o <<"x", "/">>
    /\ dirName = <<"x", "-">>

\* C13: the directory name createWorktree uses is the sanitised cleanName of the
\* token's resolution, so x, origin/x and remotes/origin/x share one directory.
C13_DirNameFromCleanName ==
    (cmd.kind = "create" /\ resolution.type # "none") =>
        dirName = sanitizeBranchName(resolution.cleanBranchName)

\* number of appended blocks (# git worktrees, then the pattern) in a file
Blocks(file) ==
    Cardinality({i \in 1..(Len(file.lines) - 1) :
                    /\ file.lines[i] = GITIGNORE_COMMENT
                    /\ file.lines[i + 1] = WORKTREE_DIR \o SLASH})

PatternLines(file) ==
    Cardinality({i \in 1..Len(file.lines) : file.lines[i] = WORKTREE_DIR \o SLASH})

\* C14: ensureGitignore is idempotent: from any .gitignore the first call adds
\* the pattern at most once, and every further call leaves the file unchanged, so
\* no duplicate block is ever appended.
C14_EnsureGitignoreIdempotent ==
    [][/\ PatternLines(gitignore') <= PatternLines(gitignore) + 1
       /\ Blocks(gitignore') <= Blocks(gitignore) + 1
       /\ runs >= 1 => gitignore' = gitignore]_vars

C14_Witness_AppendedOnce ==
    /\ pc = "ignore"
    /\ runs >= 2
    /\ gitignore.lines =
           <<NODE_MODULES, EMPTY, GITIGNORE_COMMENT, WORKTREE_DIR \o SLASH, EMPTY>>

\* the local branch name of the Remote dispatch
LocalName == ReplaceFirst(resolution.foundBranch, ORIGIN, EMPTY)

\* C15: when the resolution is Remote and no local branch localName exists,
\* createWorktree adds the worktree with a new branch localName starting at
\* foundRef and then sets its upstream to foundRef; after a successful run the
\* local branch is at the remote ref's commit with upstream foundRef.
C15_RemoteCreatesTrackingBranch ==
    /\ (/\ pc \in {"createWorktreeWithExistingBranch",
                   "createWorktreeWithNewTrackingBranch"}
        /\ resolution.type = "remote"
        /\ LocalName \notin DOMAIN heads)
       => pc = "createWorktreeWithNewTrackingBranch"
    /\ (/\ cmd.kind = "create"
        /\ resolution.type = "remote"
        /\ pc = "exited"
        /\ exitCode = 0
        /\ HasOk("worktree add -b"))
       => /\ LocalName \in DOMAIN heads
          /\ heads[LocalName] = RevParse(resolution.foundBranch)
          /\ LocalName \in DOMAIN upstream
          /\ upstream[LocalName] = resolution.foundBranch

\* the base branch the invocation names: the explicit option, else main
BaseOfRun ==
    IF cmd.options.baseBranch # EMPTY THEN cmd.options.baseBranch ELSE MAIN

NewRun == cmd.kind = "create" /\ resolution.type = "new"

BASE_MISSING == "error: Base branch not found"

\* C16: when the resolution is New and the base branch (explicit option, else
\* main) exists, createWorktree issues worktree add -b with the branch name
\* cleanName and, as start point, the commit the base resolves to, after checking
\* the base; once the add succeeded the new branch is at that commit, checked out
\* in the worktree, and with setup succeeding the exit status is 0.
C16_NewBranchFromBase ==
    NewRun =>
        /\ \A i \in DOMAIN log : log[i].op = "worktree add -b" =>
               /\ i > 2
               /\ log[i].args =
                      <<resolution.cleanBranchName, worktreePath, log[i - 1].out>>
               /\ log[i - 1].op = VERIFY /\ log[i - 1].args = <<BaseOfRun>>
               /\ log[i - 2].op = VERIFY /\ log[i - 2].args = <<BaseOfRun>>
               /\ log[i - 2].ok
               /\ log[i].ok =>
                      /\ log[i].args[3] = RevParse(BaseOfRun)
                      /\ resolution.cleanBranchName \in DOMAIN heads
                      /\ heads[resolution.cleanBranchName] = RevParse(BaseOfRun)
                      /\ worktreePath \in DOMAIN worktrees
                      /\ worktrees[worktreePath] = resolution.cleanBranchName
        /\ ~HasOp("worktree add")
        /\ ~HasOp("set-upstream-to")
        /\ (pc = "exited" /\ ~HasOp(BASE_MISSING)) => HasOp("worktree add -b")
        /\ (pc = "exited" /\ HasOk("worktree add -b") /\ HasOk("runSetup")) =>
               exitCode = 0 /\ HasOp("report")

C16_Witness_NewFromExplicitBase ==
    /\ NewRun
    /\ pc = "exited"
    /\ exitCode = 0
    /\ cmd.arg = Y
    /\ cmd.options.baseBranch = X
    /\ HasOk("worktree add -b")
    /\ Y \in DOMAIN heads
    /\ heads[Y] = C_TAG

\* C17: when the resolution is New and the base branch does not exist,
\* createWorktree lists the available branches and terminates with a failure
\* status; no worktree-add is invoked, no branch is created, setup is not run.
C17_MissingBaseAborts ==
    (NewRun /\ pc # "createNewBranch" /\ RevParse(BaseOfRun) = EMPTY) =>
        /\ pc = "exited"
        /\ exitCode # 0
        /\ Len(log) >= 3
        /\ log[Len(log) - 2].op = VERIFY
        /\ log[Len(log) - 2].args = <<BaseOfRun>>
        /\ log[Len(log) - 1].op = BASE_MISSING
        /\ log[Len(log)].op = "branch -a"
        /\ ~HasOp("worktree add")
        /\ ~HasOp("worktree add -b")
        /\ ~HasOp("runSetup")
        /\ ~HasOp("report")

C17_Witness_ExplicitBaseMissing ==
    /\ NewRun
    /\ pc = "exited"
    /\ exitCode = 1
    /\ cmd.options.baseBranch = X
    /\ HasOp(BASE_MISSING)
    /\ HasOk("branch -a")

\* the mode the two inputs call for: skip first, then the explicit path
ModeOfRun ==
    CASE cmd.options.skipSetup -> NONE
      [] ~cmd.options.skipSetup /\ cmd.options.setupScript # EMPTY -> cmd.options.setupScript
      [] OTHER -> DEFAULT

\* C18: for every combination of the skip flag and the optional script path the
\* mode passed to runSetup is none when skip is set (also with a path given),
\* else the path when given, else default, on the reuse path and on the
\* fresh-creation path alike; with mode none nothing is executed.
C18_SetupModeChoice ==
    \A i \in DOMAIN log : log[i].op = "runSetup" =>
        /\ SubSeq(log[i].args, 1, 2) = <<worktreePath, ModeOfRun>>
        /\ cmd.options.skipSetup => (log[i].ok /\ log[i].out = EMPTY)

C18_Witness_SkipBeatsPath ==
    /\ cmd.options.skipSetup
    /\ cmd.options.setupScript = CUSTOM_SCRIPT
    /\ HasOk("worktree add -b")
    /\ HasOp("runSetup")
    /\ pc = "exited"

\* C19: for every command, if the repository check fails the process exits with
\* status 1 and no core logic runs: no path is computed, nothing is written, no
\* fetch and no worktree or branch command is invoked.
C19_NotARepositoryIsFatal ==
    (Len(log) >= 1 /\ ~log[1].ok) =>
        /\ pc = "exited"
        /\ exitCode = 1
        /\ OpsFrom(1) = <<"rev-parse --git-dir", "error: Not a git repository">>
        /\ dirName = EMPTY
        /\ worktreePath = EMPTY
        /\ resolution = NoResolution
        /\ branchName = EMPTY

C19_Witness_CreateOutsideRepository ==
    /\ pc = "exited"
    /\ exitCode = 1
    /\ cmd.kind = "create"
    /\ cmd.arg = X
    /\ Len(log) = 2
    /\ ~log[1].ok

\* the prefixes the README lists for directory naming
ReadmePrefixes == <<REMOTES_ORIGIN, REMOTES \o CLAUDE, ORIGIN, CLAUDE>>

ReadmeStripped(t) ==
    IF \E i \in DOMAIN ReadmePrefixes : StartsWith(t, ReadmePrefixes[i])
    THEN LET i == CHOOSE j \in DOMAIN ReadmePrefixes : StartsWith(t, ReadmePrefixes[j])
         IN  SubSeq(t, Len(ReadmePrefixes[i]) + 1, Len(t))
    ELSE t

\* C20: directory naming strips the prefix origin/, remotes/origin/, claude/ or
\* remotes/claude/ from the branch token before converting slashes to hyphens.
C20_ReadmeDirectoryNaming ==
    pc = "pureDone" => dirName = sanitizeBranchName(ReadmeStripped(cmd.arg))

\* C21: in default mode, when no script candidate is executable but the Makefile
\* has a setup or bootstrap target, the Makefile target is run as the setup step.
C21_MakefileTargetIsRun ==
    \A i \in DOMAIN log :
        (/\ log[i].op = "runSetup"
         /\ log[i].args[2] = DEFAULT
         /\ log[i].args[3] = MAKE_SETUP)
        => log[i].out = MAKE_SETUP

AllOk == \A i \in DOMAIN log : log[i].ok

InRepository == Len(log) >= 1 /\ log[1].ok

\* C22: pruneWorktrees invokes the prune and then the worktree listing, in that
\* order; listWorktrees invokes only the listing, and the listing step changes no
\* ref, no worktree registration and no file.
C22_PruneThenList ==
    /\ [](/\ (cmd.kind = "prune" /\ InRepository) =>
                 /\ OpsFrom(2) \in {<< >>, <<"worktree prune">>,
                                    <<"worktree prune", "worktree list">>}
                 /\ (pc = "exited" /\ AllOk) =>
                        /\ OpsFrom(2) = <<"worktree prune", "worktree list">>
                        /\ exitCode = 0
          /\ (cmd.kind = "list" /\ InRepository) =>
                 /\ OpsFrom(2) \in {<< >>, <<"worktree list">>}
                 /\ (pc = "exited" /\ AllOk) => exitCode = 0)
    /\ [][pc = "listWorktrees" => UNCHANGED <<refVars, diskVars>>]_vars

C22_Witness_PrunedAndListed ==
    /\ cmd.kind = "prune"
    /\ pc = "exited"
    /\ exitCode = 0
    /\ OpsFrom(2) = <<"worktree prune", "worktree list">>
    /\ WtX \notin DOMAIN worktrees
    /\ runs = 1

\* position of the fetch attempt in the log of a fresh creation
FetchAt == IF Len(log) >= 6 /\ log[6].op = "mkdir" THEN 7 ELSE 6

\* C23: in every run of resolveBranch the probe for remoteCandidate is issued
\* first, and the probe for the local cleanName is issued only when the remote
\* probe reported that the ref does not exist.
C23_RemoteProbeFirst ==
    AfterResolve =>
        LET c == Classify(cmd.arg)
        IN  /\ Len(log) > FetchAt
            /\ log[FetchAt].op = "fetch"
            /\ log[FetchAt + 1].op = VERIFY
            /\ log[FetchAt + 1].args = <<c.remoteCandidate>>
            /\ IF log[FetchAt + 1].ok
               THEN Len(log) = FetchAt + 1
               ELSE /\ Len(log) = FetchAt + 2
                    /\ log[FetchAt + 2].op = VERIFY
                    /\ log[FetchAt + 2].args = <<c.cleanBranchName>>

C23_Witness_LocalProbeSkipped ==
    /\ pc = "createFromRemoteBranch"
    /\ resolution.cleanBranchName \in DOMAIN heads
    /\ Len(log) = FetchAt + 1
    /\ log[Len(log)].args = <<ORIGIN \o X>>
    /\ cmd.arg = X

ExistingOnRemove ==
    /\ cmd.kind = "remove"
    /\ Len(log) >= 3
    /\ log[3].op = "existsSync"
    /\ log[3].ok

\* C24: removeWorktree on an existing path captures the branch name, then runs
\* the forced worktree remove, then the branch delete; the delete is attempted
\* only after the remove succeeded (a failed remove aborts, nothing is deleted),
\* and a failed delete is not fatal: the removal is reported and the exit status
\* is 0 (unless the closing listing itself fails).
C24_RemoveOrder ==
    ExistingOnRemove =>
        /\ OpsFrom(4) \in
               {<< >>,
                <<ABBREV_HEAD>>,
                <<ABBREV_HEAD, "worktree remove">>,
                <<ABBREV_HEAD, "worktree remove", "error: Command failed">>,
                <<ABBREV_HEAD, "worktree remove", "branch -D">>,
                <<ABBREV_HEAD, "worktree remove", "removed", "worktree list">>,
                <<ABBREV_HEAD, "worktree remove", "branch -D", "removed", "worktree list">>}
        /\ \A i \in DOMAIN log : log[i].op = "branch -D" =>
               log[i - 1].op = "worktree remove" /\ log[i - 1].ok
        /\ \A i \in DOMAIN log : (log[i].op = "worktree remove" /\ ~log[i].ok) =>
               /\ pc = "exited"
               /\ exitCode # 0
               /\ ~HasOp("branch -D")
               /\ ~HasOp("removed")
        /\ \A i \in DOMAIN log : (log[i].op = "branch -D" /\ ~log[i].ok) =>
               /\ pc \in {"removeSummary", "exited"}
               /\ pc = "exited" =>
                      /\ OpsFrom(i + 1) = <<"removed", "worktree list">>
                      /\ log[Len(log)].ok => exitCode = 0

C24_Witness_DeleteFailedStillRemoved ==
    /\ ExistingOnRemove
    /\ pc = "exited"
    /\ exitCode = 0
    /\ HasOp("branch -D")
    /\ ~HasOk("branch -D")
    /\ HasOp("removed")

FreshPath ==
    /\ cmd.kind = "create"
    /\ Len(log) >= 3
    /\ log[3].op = "existsSync"
    /\ ~log[3].ok

GitignoreOps == {"read .gitignore", "write .gitignore", "append .gitignore"}
AddOps == {"worktree add", "worktree add -b"}
SET_UPSTREAM == "set-upstream-to"

\* C25: on the fresh-creation path the steps run in the order: .gitignore entry,
\* worktree-root directory, fetch attempt, branch resolution, exactly one dispatch
\* handler, runSetup, report; the fetch attempt is over before the first
\* ref-existence probe, and runSetup is invoked only after a worktree-add
\* succeeded.
C25_FreshCreationOrder ==
    FreshPath =>
        /\ Len(log) >= 4 => log[4].op \in GitignoreOps
        /\ Len(log) >= 5 => log[5].op = "existsSync" /\ log[5].args = <<RootDirPath>>
        /\ Len(log) >= FetchAt => log[FetchAt].op = "fetch"
        /\ Len(log) > FetchAt =>
               log[FetchAt + 1].op = VERIFY
               /\ log[FetchAt + 1].args = <<Classify(cmd.arg).remoteCandidate>>
        /\ \A i \in DOMAIN log :
               /\ log[i].op \in GitignoreOps => i = 4
               /\ log[i].op = "mkdir" => i = 6
               /\ log[i].op = "fetch" => i = FetchAt
               /\ log[i].op \in {VERIFY, SET_UPSTREAM, "runSetup", "report"} \cup AddOps
                      => i > FetchAt
               /\ log[i].op \in AddOps => resolution.type # "none"
               /\ log[i].op = "runSetup" =>
                      /\ \E j \in 1..(i - 1) : log[j].op \in AddOps /\ log[j].ok
                      /\ \A k \in (i + 1)..Len(log) :
                             log[k].op \notin {VERIFY, SET_UPSTREAM, "fetch"} \cup AddOps
               /\ log[i].op = "report" =>
                      /\ i = Len(log)
                      /\ log[i - 3].op = "runSetup"
                      /\ log[i - 3].ok
        /\ Cardinality({i \in DOMAIN log : log[i].op \in AddOps}) <= 1
        /\ resolution.type = "local" => ~HasOp("worktree add -b") /\ ~HasOp(SET_UPSTREAM)
        /\ resolution.type = "new" => ~HasOp("worktree add") /\ ~HasOp(SET_UPSTREAM)

C25_Witness_FullFreshRun ==
    /\ FreshPath
    /\ pc = "exited"
    /\ exitCode = 0
    /\ HasOp("mkdir")
    /\ \E i \in DOMAIN log : log[i].op = "fetch" /\ log[i].ok
    /\ HasOk(SET_UPSTREAM)
    /\ HasOp("report")

RemoteRun == cmd.kind = "create" /\ resolution.type = "remote"

\* C26: when the resolution is Remote and a local branch localName exists, the
\* worktree is added checking out that branch and an upstream that is already
\* configured for it, to whatever ref, is never overwritten: no step of the run
\* changes it.
C26_ConfiguredUpstreamKept ==
    [][(RemoteRun /\ HasOk("worktree add") /\ LocalName \in DOMAIN upstream) =>
           /\ LocalName \in DOMAIN upstream'
           /\ upstream'[LocalName] = upstream[LocalName]]_vars

\* C27: when the resolution is Local, createWorktree adds a worktree checking
\* out the existing local branch foundRef and does nothing else to refs: no
\* branch is created, and no upstream is queried or set (the closing report,
\* after runSetup, is the only reader of the upstream).
C27_LocalAddsOnly ==
    (cmd.kind = "create" /\ resolution.type = "local") =>
        /\ \A i \in DOMAIN log : log[i].op = "worktree add" =>
               /\ log[i].args = <<worktreePath, resolution.foundBranch>>
               /\ log[i].ok =>
                      /\ resolution.foundBranch \in DOMAIN heads
                      /\ worktreePath \in DOMAIN worktrees
                      /\ worktrees[worktreePath] = resolution.foundBranch
        /\ ~HasOp("worktree add -b")
        /\ ~HasOp(SET_UPSTREAM)
        /\ \A i \in DOMAIN log : log[i].op = UPSTREAM_QUERY =>
               \E j \in 1..(i - 1) : log[j].op = "runSetup"

\* C28: in New dispatch, whenever worktree-add is invoked its start point is a
\* non-empty commit id, never the base branch name and never an empty string,
\* and it is the commit the base had when its existence was checked, also when
\* a probe fails between the existence check and the resolution.
C28_StartPointIsCheckedCommit ==
    NewRun =>
        \A i \in DOMAIN log : log[i].op = "worktree add -b" =>
            /\ log[i].args[3] # EMPTY
            /\ log[i].args[3] \in Commits
            /\ log[i].args[3] # BaseOfRun
            /\ log[i].args[3] = log[i - 2].out

ExactLine(file) ==
    \E i \in DOMAIN file.lines : file.lines[i] \in {WORKTREE_DIR, WORKTREE_DIR \o SLASH}

\* C29: ensureGitignore appends its block to an existing .gitignore if and only
\* if no line of the file is exactly <root> or <root>/; so after the ensure step
\* the file always holds a line that is exactly <root> or <root>/.
C29_AppendsUnlessExactLine ==
    (pc = "ignore" /\ Len(log) >= 1) =>
        LET last == log[Len(log)].op
            before == [exists |-> TRUE,
                       lines |-> SubSeq(gitignore.lines, 1, Len(gitignore.lines) - 3)]
        IN  /\ last = "append .gitignore" => ~ExactLine(before)
            /\ last = "read .gitignore" => ExactLine(gitignore)
            /\ ExactLine(gitignore)

\* C30: resolveBranch returns Local only when a local branch
\* refs/heads/<cleanName> exists, never because cleanName resolves to another
\* object such as a tag or a commit id.
C30_LocalMeansLocalBranch ==
    (AfterResolve /\ resolution.type = "local") =>
        resolution.cleanBranchName \in DOMAIN heads

MutatingOps ==
    {"worktree add", "worktree add -b", SET_UPSTREAM, "worktree remove", "branch -D",
     "write .gitignore", "append .gitignore", "mkdir", "worktree prune"}

Count(ops) == Cardinality({i \in DOMAIN log : log[i].op \in ops})

ReadOnlyProbes == {VERIFY, UPSTREAM_QUERY}

C32_RemoteLocalNameIsCleanName ==
    (pc # "pure" /\ resolution.type = "remote") =>
        LocalName = resolution.cleanBranchName

C32_Witness_RemotesPrefixResolved ==
    /\ pc = "pureResolved"
    /\ resolution.type = "remote"
    /\ StartsWith(cmd.arg, REMOTES_ORIGIN)
    /\ Len(resolution.cleanBranchName) = MaxTail
    /\ resolution.foundBranch = ORIGIN \o resolution.cleanBranchName

\* a create run that is not dispatched to createNewBranch
NonNewCreate ==
    /\ cmd.kind = "create"
    /\ ReusePath \/ resolution.type \in {"remote", "local"}

\* C33: the base-branch option influences createWorktree only when the
\* resolution is New: on the reuse path and for Remote or Local resolutions
\* every command and its arguments are given by the token, the path and the
\* setup options alone, the base is never probed or reported missing, and
\* the run never ends in the base check.
C33_BaseOnlyForNew ==
    NonNewCreate =>
        LET c == Classify(cmd.arg)
        IN  /\ pc \notin {"createNewBranch", "getBranchRef", "addNewBranch"}
            /\ branchRef = EMPTY
            /\ ~HasOp(BASE_MISSING)
            /\ ~HasOp("branch -a")
            /\ ReusePath => ~HasOp(VERIFY)
            /\ Count({VERIFY}) <= 3
            /\ \A i \in DOMAIN log :
                   /\ log[i].op = VERIFY =>
                          log[i].args \in {<<c.remoteCandidate>>, <<c.cleanBranchName>>}
                   /\ log[i].op = "worktree add" =>
                          log[i].args = <<worktreePath, c.cleanBranchName>>
                   /\ log[i].op = "worktree add -b" =>
                          log[i].args = <<c.cleanBranchName, worktreePath, c.remoteCandidate>>
                   /\ log[i].op = SET_UPSTREAM =>
                          log[i].args = <<worktreePath, c.remoteCandidate>>
                   /\ log[i].op = "runSetup" =>
                          SubSeq(log[i].args, 1, 2) = <<worktreePath, ModeOfRun>>

C33_Witness_MissingBaseIgnored ==
    /\ cmd.kind = "create"
    /\ cmd.options.baseBranch = X
    /\ resolution.type = "remote"
    /\ pc = "exited"
    /\ exitCode = 0
    /\ HasOk("worktree add -b")
    /\ \E i \in DOMAIN log : log[i].op = VERIFY /\ log[i].args = <<X>> /\ ~log[i].ok

\* C34: whenever createWorktree(token) finishes with exit status 0, worktreePath
\* is a registered worktree whose checked-out branch is the cleanName of the
\* token's resolution, also after earlier invocations and for a path that
\* already existed on disk.
C34_SuccessMeansBranchCheckedOut ==
    (cmd.kind = "create" /\ cmd.arg # EMPTY /\ pc = "exited" /\ exitCode = 0) =>
        /\ worktreePath \in DOMAIN worktrees
        /\ worktrees[worktreePath] = Classify(cmd.arg).cleanBranchName

\* p is projectRoot/<worktree-root>/<name> for a single path segment <name>
DirectChild(p) ==
    /\ StartsWith(p, RootDirPath \o SLASH)
    /\ LET name == SubSeq(p, Len(RootDirPath) + 2, Len(p))
       IN  /\ name # EMPTY
           /\ IndexOf(name, SLASH) = 0
           /\ name \notin {DOT, DOTDOT}

PathArg(e) == IF e.op = "worktree add -b" THEN e.args[2] ELSE e.args[1]

\* C35: every path handed to worktree-add or worktree-remove is a direct child
\* of projectRoot/<worktree-root>, for every token given to create and every
\* name given to remove (also names containing ".", ".." or "/").
C35_PathsUnderWorktreeRoot ==
    \A i \in DOMAIN log :
        log[i].op \in AddOps \cup {"worktree remove"} => DirectChild(PathArg(log[i]))

\* C37: runSetup returns false only when a setup script was executed and exited
\* with an error; for mode none, for default mode with no detected script and
\* for a script that does not exist or is not executable it returns true
\* without executing anything, and the command goes on to the report and exits 0.
C37_SetupFalseOnlyAfterFailedScript ==
    \A i \in DOMAIN log : log[i].op = "runSetup" =>
        LET mode == log[i].args[2]
            script == log[i].args[3]
            executed == log[i].out
        IN  /\ ~log[i].ok => executed # EMPTY /\ executed = script
            /\ mode = NONE => log[i].ok /\ executed = EMPTY /\ script = EMPTY
            /\ script = EMPTY => log[i].ok /\ executed = EMPTY
            /\ executed = EMPTY => log[i].ok
            /\ log[i].ok => pc \in {"report", "reportExisting", "exited"}
            /\ (log[i].ok /\ pc = "exited") =>
                   /\ exitCode = 0
                   /\ i = Len(log) - 3
                   /\ log[Len(log)].op = "report"

C37_Witness_MissingScriptReported ==
    /\ pc = "exited"
    /\ exitCode = 0
    /\ HasOp("report")
    /\ \E i \in DOMAIN log :
           /\ log[i].op = "runSetup"
           /\ log[i].args[2] = CUSTOM_SCRIPT
           /\ log[i].args[3] = CUSTOM_SCRIPT
           /\ log[i].out = EMPTY
           /\ log[i].ok

Running == pc \notin {"idle", "exited"}

\* C38: createWorktree never undoes its own effects: on no path (success, setup
\* failure, failed set-upstream after a successful worktree add, missing base)
\* does it invoke worktree remove or branch delete, shorten the .gitignore or
\* remove a directory, a registration or a branch; removeWorktree never invokes
\* worktree add and never writes .gitignore.
C38_CreateNeverUndoes ==
    /\ [](/\ cmd.kind = "create" =>
                 /\ ~HasOp("worktree remove")
                 /\ ~HasOp("branch -D")
                 /\ ~HasOp("worktree prune")
                 /\ \A i \in DOMAIN log :
                        (log[i].op \in AddOps /\ log[i].ok) =>
                            /\ PathArg(log[i]) \in DOMAIN worktrees
                            /\ PathArg(log[i]) \in fsDirs
                            /\ log[i].op = "worktree add -b" =>
                                   log[i].args[1] \in DOMAIN heads
                 /\ HasOp("mkdir") => RootDirPath \in fsDirs
                 /\ Count(GitignoreOps) >= 1 =>
                        /\ gitignore.exists
                        /\ \E k \in DOMAIN gitignore.lines :
                               LineMatches(gitignore.lines[k], WORKTREE_DIR)
          /\ cmd.kind = "remove" =>
                 /\ Count(AddOps) = 0
                 /\ Count(GitignoreOps) = 0
                 /\ ~HasOp("mkdir"))
    /\ [][/\ (cmd.kind = "create" /\ Running) =>
                 /\ DOMAIN worktrees \subseteq DOMAIN worktrees'
                 /\ fsDirs \subseteq fsDirs'
                 /\ DOMAIN heads \subseteq DOMAIN heads'
                 /\ gitignore.exists =>
                        /\ gitignore'.exists
                        /\ StartsWith(gitignore'.lines, gitignore.lines)
          /\ (cmd.kind = "remove" /\ Running) => gitignore' = gitignore]_vars

C38_Witness_UpstreamFailedKept ==
    /\ cmd.kind = "create"
    /\ pc = "exited"
    /\ exitCode # 0
    /\ HasOk("worktree add -b")
    /\ HasOp(SET_UPSTREAM)
    /\ ~HasOk(SET_UPSTREAM)
    /\ worktreePath \in DOMAIN worktrees
    /\ LocalName \in DOMAIN heads

\* C39: ensureGitignore is append-only: when .gitignore already exists its
\* previous content remains an unchanged prefix of the new content, and the
\* file is written from scratch only when it did not exist.
C39_GitignoreAppendOnly ==
    [][pc = "ignore" =>
           /\ gitignore.exists =>
                  /\ gitignore'.exists
                  /\ StartsWith(gitignore'.lines, gitignore.lines)
                  /\ log'[Len(log')].op \in {"read .gitignore", "append .gitignore"}
           /\ log'[Len(log')].op = "write .gitignore" <=> ~gitignore.exists
           /\ log'[Len(log')].op = "append .gitignore" =>
                  Len(gitignore'.lines) = Len(gitignore.lines) + 3]_vars

C39_Witness_AppendedAfterOtherLines ==
    /\ pc = "ignore"
    /\ Len(log) >= 1
    /\ log[Len(log)].op = "append .gitignore"
    /\ Len(gitignore.lines) = MaxLines + 3
    /\ gitignore.lines[1] = NODE_MODULES

\* C40: for every value the parsed setup option can take (true, false or a path
\* string) the options passed to createWorktree never have both skipSetup =
\* true and a defined setupScript; skipSetup is true exactly when the value is
\* false, and setupScript is defined exactly when the value is a string.
C40_SkipAndScriptExclusive ==
    pc = "optionsDone" =>
        /\ ~(cmd.options.skipSetup /\ cmd.options.setupScript # JsUndefined)
        /\ cmd.options.skipSetup <=> cmd.parsed.setup = JsBool(FALSE)
        /\ cmd.options.setupScript # JsUndefined <=> cmd.parsed.setup.type = "string"
        /\ cmd.parsed.setup.type = "string" => cmd.options.setupScript = cmd.parsed.setup
        /\ cmd.options.baseBranch = cmd.parsed.base

C40_Witness_EmptyPathMapped ==
    /\ pc = "optionsDone"
    /\ cmd.parsed.setup = JsString(EMPTY)
    /\ ~cmd.options.skipSetup
    /\ cmd.options.setupScript = JsString(EMPTY)

RoundTripDone == cmd.kind = "remove" /\ pc = "exited" /\ exitCode = 0

\* C36: after a successful createWorktree(token) followed by a successful
\* removeWorktree(getWorktreeName(token)) the set of local branches is what it
\* was before the create: a branch that existed before is still present.
C36_RoundTripRestoresBranches ==
    RoundTripDone => DOMAIN heads = DOMAIN cmd.before

\* C36, amended: after the round trip every local branch other than the one
\* checked out in the removed worktree is as it was before the create; a branch
\* is missing only if it is that branch and `git branch -D` deleted it, which
\* happens to a branch that existed before the create as well; a branch the
\* create added is left only when no branch was deleted.
C36_RoundTripKeepsOtherBranches ==
    RoundTripDone =>
        /\ \A n \in DOMAIN cmd.before \ DOMAIN heads :
              /\ n = cmd.checkedOut
              /\ \E i \in DOMAIN log :
                    log[i].op = "branch -D" /\ log[i].ok /\ log[i].args = <<n>>
        /\ \A n \in DOMAIN heads \ DOMAIN cmd.before : ~HasOk("branch -D")
        /\ \A n \in DOMAIN heads \cap DOMAIN cmd.before : heads[n] = cmd.before[n]
        /\ Cardinality(DOMAIN heads \ DOMAIN cmd.before) <= 1

C36_Witness_ExistingBranchDeleted ==
    /\ RoundTripDone
    /\ X \in DOMAIN cmd.before
    /\ X \notin DOMAIN heads
    /\ HasOk("branch -D")
    /\ MAIN \in DOMAIN heads
====
